---- MODULE Spec2Model ----
(***************************************************************************)
(* Run orchestration and completion detection of scripts/run_gem5.py, and  *)
(* the result summary of scripts/web_dashboard.py.                         *)
(*                                                                         *)
(* Two levels are modelled.                                                *)
(*  - The marker matcher (marker_present and its helpers) is modelled on   *)
(*    texts as sequences of ASCII code points, computed as the Python code *)
(*    computes it.  Specification SpecMatch draws a text and a marker from *)
(*    bounded sets and applies the matcher.                                *)
(*  - main() and the three supervision functions are modelled as a state   *)
(*    machine (specification Spec).  There a log file is the set of items  *)
(*    written to it so far, and marker detection on the concatenation of   *)
(*    files is membership in the union of these sets.                      *)
(***************************************************************************)
EXTENDS Integers, Sequences, FiniteSets, TLC

(***************************************************************************)
(* Part 1.  Texts and the marker matcher (run_gem5.py, lines 489-542)      *)
(***************************************************************************)

\* ASCII code points used by the matcher
NUL == 0
LF == 10
CR == 13
ESC == 27
SP == 32
LBRACKET == 91

\* bounds of the texts and markers drawn by SpecMatch
MaxTextLen == 4
MaxMarkerLen == 2

TextChars == {ESC, LBRACKET, 97, SP, CR}      \* 97 is the letter a
MarkerChars == {97, SP, LBRACKET}

RECURSIVE SeqsUpTo(_, _)
SeqsUpTo(S, n) ==
    IF n = 0 THEN {<<>>}
    ELSE LET shorter == SeqsUpTo(S, n - 1)
         IN  shorter \cup {Append(s, c) : s \in {x \in shorter : Len(x) = n - 1}, c \in S}

\* Python's  needle in hay  on strings
Contains(hay, needle) ==
    \E i \in 0..(Len(hay) - Len(needle)) :
        \A k \in 1..Len(needle) : hay[i + k] = needle[k]

\* character classes of ANSI_ESCAPE_RE = \x1B\[[0-?]*[ -/]*[@-~]
IsParamByte(c) == c \in 48..63
IsIntermediateByte(c) == c \in 32..47
IsFinalByte(c) == c \in 64..126

\* index of the first position >= i whose character is not in the class
RECURSIVE SkipParams(_, _)
SkipParams(s, i) ==
    IF i <= Len(s) /\ IsParamByte(s[i]) THEN SkipParams(s, i + 1) ELSE i

RECURSIVE SkipIntermediates(_, _)
SkipIntermediates(s, i) ==
    IF i <= Len(s) /\ IsIntermediateByte(s[i]) THEN SkipIntermediates(s, i + 1) ELSE i

\* The regular expression matched at position i: the index of the last
\* character of the match, or 0 when there is no match at i.  The three
\* classes are disjoint, so the greedy match is the only candidate.
ANSI_ESCAPE_RE(s, i) ==
    IF i + 1 <= Len(s) /\ s[i] = ESC /\ s[i + 1] = LBRACKET
    THEN LET j == SkipIntermediates(s, SkipParams(s, i + 2))
         IN  IF j <= Len(s) /\ IsFinalByte(s[j]) THEN j ELSE 0
    ELSE 0

\* ANSI_ESCAPE_RE.sub("", txt): leftmost non-overlapping matches removed
RECURSIVE AnsiSub(_, _)
AnsiSub(s, i) ==
    IF i > Len(s) THEN <<>>
    ELSE LET e == ANSI_ESCAPE_RE(s, i)
         IN  IF e > 0 THEN AnsiSub(s, e + 1)
             ELSE <<s[i]>> \o AnsiSub(s, i + 1)

\* str.replace of one character by another
Replace(s, old, new) == [k \in 1..Len(s) |-> IF s[k] = old THEN new ELSE s[k]]

\* variant of clean_log_text: the ANSI sequences are left in
clean_log_text_KeepAnsi(txt) == Replace(Replace(txt, CR, LF), NUL, SP)

clean_log_text(txt) == Replace(Replace(AnsiSub(txt, 1), CR, LF), NUL, SP)

\* the ASCII characters str.split() treats as whitespace
IsSpace(c) == c \in (9..13) \cup (28..32)

\* str.split(): the maximal runs of non-whitespace characters
RECURSIVE SplitFrom(_, _, _)
SplitFrom(s, i, word) ==
    IF i > Len(s) THEN (IF word = <<>> THEN <<>> ELSE <<word>>)
    ELSE IF IsSpace(s[i])
         THEN (IF word = <<>> THEN <<>> ELSE <<word>>) \o SplitFrom(s, i + 1, <<>>)
         ELSE SplitFrom(s, i + 1, Append(word, s[i]))

split(s) == SplitFrom(s, 1, <<>>)

\* " ".join(words)
RECURSIVE JoinSpace(_)
JoinSpace(words) ==
    IF words = <<>> THEN <<>>
    ELSE IF Len(words) = 1 THEN words[1]
    ELSE words[1] \o <<SP>> \o JoinSpace(Tail(words))

normalize_log_text(txt) == JoinSpace(split(clean_log_text(txt)))

IsDigit(c) == c \in 48..57
IsUpperLetter(c) == c \in 65..90
IsLowerLetter(c) == c \in 97..122

\* str.upper() and str.isalnum() on one ASCII character
Upper(c) == IF IsLowerLetter(c) THEN c - 32 ELSE c
IsAlnum(c) == IsDigit(c) \/ IsUpperLetter(c) \/ IsLowerLetter(c)

to_alnum_upper(txt) ==
    LET up == [k \in 1..Len(txt) |-> Upper(txt[k])]
    IN  SelectSeq(up, IsAlnum)

\* the loop of is_subsequence: idx characters of the needle are matched
RECURSIVE SubseqFrom(_, _, _, _)
SubseqFrom(needle, haystack, idx, k) ==
    IF k > Len(haystack) THEN FALSE
    ELSE IF haystack[k] = needle[idx + 1]
         THEN (IF idx + 1 = Len(needle) THEN TRUE
               ELSE SubseqFrom(needle, haystack, idx + 1, k + 1))
         ELSE SubseqFrom(needle, haystack, idx, k + 1)

\* variant of is_subsequence: the characters must be adjacent
is_subsequence_Contiguous(needle, haystack) == Contains(haystack, needle)

is_subsequence(needle, haystack) ==
    IF needle = <<>> THEN FALSE ELSE SubseqFrom(needle, haystack, 0, 1)

\* the ASCII line boundaries of str.splitlines()
IsLineBreak(c) == c \in (10..13) \cup (28..30)

\* str.splitlines(): CR LF is one boundary, no empty last line
RECURSIVE SplitLinesFrom(_, _, _)
SplitLinesFrom(s, i, line) ==
    IF i > Len(s) THEN (IF line = <<>> THEN <<>> ELSE <<line>>)
    ELSE IF IsLineBreak(s[i])
         THEN <<line>> \o
              SplitLinesFrom(s, IF s[i] = CR /\ i < Len(s) /\ s[i + 1] = LF
                                THEN i + 2 ELSE i + 1, <<>>)
         ELSE SplitLinesFrom(s, i + 1, Append(line, s[i]))

splitlines(s) == SplitLinesFrom(s, 1, <<>>)

\* tier 3 of marker_present (lines 531-542)
InterleavedMatch(text, norm_marker) ==
    LET needle == to_alnum_upper(norm_marker)
        lines == splitlines(clean_log_text(text))
        hay_all == to_alnum_upper(normalize_log_text(text))
    IN  IF needle = <<>> THEN FALSE
        ELSE \/ \E n \in 1..Len(lines) :
                   LET hay == to_alnum_upper(lines[n])
                   IN  Contains(hay, needle) \/ is_subsequence(needle, hay)
             \/ Contains(hay_all, needle)
             \/ is_subsequence(needle, hay_all)

\* variants of marker_present with one tier changed
marker_present_NoGuard(text, marker, allow_interleaved) ==
    LET norm_marker == JoinSpace(split(marker))
    IN  \/ Contains(text, marker)
        \/ Contains(normalize_log_text(text), norm_marker)
        \/ allow_interleaved /\ InterleavedMatch(text, norm_marker)

marker_present_InterleavedOnly(text, marker, allow_interleaved) ==
    LET norm_marker == JoinSpace(split(marker))
    IN  IF Contains(text, marker) THEN TRUE
        ELSE IF allow_interleaved THEN InterleavedMatch(text, norm_marker)
        ELSE norm_marker # <<>> /\ Contains(normalize_log_text(text), norm_marker)

marker_present(text, marker, allow_interleaved) ==
    IF Contains(text, marker) THEN TRUE
    ELSE LET normalized == normalize_log_text(text)
             norm_marker == JoinSpace(split(marker))
         IN  IF norm_marker # <<>> /\ Contains(normalized, norm_marker) THEN TRUE
             ELSE IF ~allow_interleaved THEN FALSE
             ELSE InterleavedMatch(text, norm_marker)

VARIABLES
    m_text,         \* the haystack handed to marker_present
    m_marker,       \* the marker handed to marker_present
    m_plain,        \* result with allow_interleaved = False
    m_inter,        \* result with allow_interleaved = True
    m_pc,           \* "input" before the calls, "matched" after them
    m_case          \* how the haystack was put together

matchvars == <<m_text, m_marker, m_plain, m_inter, m_pc, m_case>>

\* a haystack drawn as a sequence of characters
NoCase == [kind |-> "none"]

VARIABLES
    r_kind,         \* which artifact is resolved
    r_hint,         \* the path given on the command line ("" when none)
    r_cands,        \* the candidate list handed to find_first_existing
    r_fs,           \* the paths that exist on the disk
    r_ram_root,     \* the disk image is not looked for (root=/dev/ram)
    r_out,          \* the path the resolver returned
    r_pc            \* "input" before the call, "resolved" after it

rvars == <<r_kind, r_hint, r_cands, r_fs, r_ram_root, r_out, r_pc>>

VARIABLES
    l_procs,        \* the invocations that run
    l_fs,           \* what each latest-pointer name is on the disk
    l_init,         \* history: l_fs before any invocation ran
    l_pc,           \* position of each invocation in refresh_latest_symlink
    l_idx,          \* which pointer each invocation is refreshing
    l_warned        \* the pointers each invocation warned about

lvars == <<l_procs, l_fs, l_init, l_pc, l_idx, l_warned>>

VARIABLES
    rd_fs,          \* what each log path is on the disk
    rd_out,         \* what the reader returned, or that it raised
    rd_pc           \* "input" before the call, "done" after it

rdvars == <<rd_fs, rd_out, rd_pc>>

NoRead == [kind |-> "none"]

VARIABLES
    st_file,        \* the statistics file on the disk
    st_out,         \* what read_stats_counter returned, or that it raised
    st_pc           \* "input" before the call, "done" after it

stvars == <<st_file, st_out, st_pc>>

VARIABLES
    q_file,         \* the marker log on the disk
    q_markers,      \* success_markers
    q_child,        \* what proc.poll() sees
    q_late,         \* time.monotonic() >= deadline
    q_single,       \* the branch an iteration of run_one_until_markers takes
    q_multi         \* the branch an iteration of run_one_until_markers_multi takes

qvars == <<q_file, q_markers, q_child, q_late, q_single, q_multi>>

VARIABLES
    j_status,       \* job.status
    j_stage,        \* job.stage
    j_progress,     \* job.progress
    j_returncode,   \* job.returncode (-2: None)
    j_output,       \* job.recent_output
    j_pc            \* position of run_job

jvars == <<j_status, j_stage, j_progress, j_returncode, j_output, j_pc>>

\* the variables of the specifications of single functions
mvars == <<matchvars, rvars, lvars, rdvars, stvars, qvars, jvars>>

\* the claim's "literal substring", stated on the text itself
IsLiteralSubstring(needle, hay) ==
    \E i \in 1..(Len(hay) + 1) : \E j \in (i - 1)..Len(hay) : SubSeq(hay, i, j) = needle

\* the whitespace-normalized form of a marker (line 524)
NormMarker(marker) == JoinSpace(split(marker))

\* C1 (as stated): marker_present(t, m, False) is true iff m is a literal
\* substring of t or the whitespace-normalized form of m is a literal
\* substring of the normalized form of t.
C1_PlainIffSubstringOrNormalized ==
    m_pc = "matched" =>
        (m_plain <=> \/ IsLiteralSubstring(m_marker, m_text)
                     \/ IsLiteralSubstring(NormMarker(m_marker), normalize_log_text(m_text)))

\* C1 (amended): marker_present(t, m, False) is true iff m is a literal
\* substring of t, or the whitespace-normalized form of m is not empty and is
\* a literal substring of the normalized form of t.
C1_PlainIffSubstringOrNonEmptyNormalized ==
    m_pc = "matched" =>
        (m_plain <=> \/ IsLiteralSubstring(m_marker, m_text)
                     \/ /\ NormMarker(m_marker) # <<>>
                        /\ IsLiteralSubstring(NormMarker(m_marker), normalize_log_text(m_text)))

\* a marker of whitespace only that is not literally in the text is not found
C1_Witness ==
    /\ m_pc = "matched"
    /\ m_marker # <<>>
    /\ NormMarker(m_marker) = <<>>
    /\ ~IsLiteralSubstring(m_marker, m_text)
    /\ ~m_plain

\* C2: interleaved matching is never less permissive: whenever
\* marker_present(t, m, False) is true, marker_present(t, m, True) is true.
C2_InterleavedNeverLessPermissive ==
    (m_pc = "matched" /\ m_plain) => m_inter

\* a marker found by the normalized tier only, with both settings
C2_Witness ==
    /\ m_pc = "matched"
    /\ m_plain
    /\ m_inter
    /\ ~IsLiteralSubstring(m_marker, m_text)

(***************************************************************************)
(* Part 2.  main() and the supervision functions (run_gem5.py, 545-1165)   *)
(*                                                                         *)
(* A log file is the set of items written to it so far; an item is a text  *)
(* holding one marker whole.  Items sit on lines of their own, so a marker *)
(* is found in the concatenation of files iff an item of one of the files  *)
(* holds it (SubstringPairs lists the markers contained in other markers,  *)
(* InterleavedPairs the items only the interleaved tier matches).          *)
(***************************************************************************)

Targets == {"riscv64_smp", "riscv_hybrid", "riscv32_simple", "riscv32_mixed"}
Modes == {"simple", "complex"}

\* bounds of the inputs of main()
MaxAbsent == 2          \* prerequisite files absent from the disk
MaxTimeoutSec == 3      \* largest --timeout-sec drawn

\* time.sleep(2) of the polling loops
PollSec == 2
\* returncode reported for a timeout
TimeoutCode == 124
\* exit statuses the simulator ends with on its own
ExitCodes == {0, 1}
\* Popen.returncode of a child ended by SIGTERM / SIGKILL
SIGTERM_RC == -15
SIGKILL_RC == -9

default_config_for_target(t) ==
    CASE t = "riscv64_smp" -> "riscv64_smp.py"
      [] t = "riscv32_mixed" -> "riscv32_mixed.py"
      [] t = "riscv_hybrid" -> "riscv_hybrid.py"
      [] OTHER -> "fs_linux.py"

\* prerequisite files each target's branch of main() looks at
Prereqs(t) ==
    {"gem5_bin", "config"} \cup
    CASE t = "riscv64_smp" -> {"kernel_elf", "bootloader", "initramfs", "disk_image"}
      [] t = "riscv_hybrid" -> {"kernel_elf", "bootloader", "initramfs",
                                "amp_cpu0_elf", "amp_cpu1_elf", "smp_elf", "mixed_boot_elf"}
      [] t = "riscv32_simple" -> {"simple_elf"}
      [] OTHER -> {"amp_cpu0_elf", "amp_cpu1_elf", "smp_elf", "mixed_boot_elf"}

\* artifacts the command line may name (--bootloader, --initramfs, --disk-image)
Hintable == {"bootloader", "initramfs", "disk_image"}

\* marker lists of main()
Rv64PollMarkers == {"INITRAMFS_SHELL_READY", "initramfs#"}
Rv64Markers ==
    {"OpenSBI", "Linux version", "Loaded bootloader", "Loaded kernel",
     "Run /init as init process", "INITRAMFS_SHELL_READY", "initramfs#",
     "simulate() limit reached", "Kernel panic", "fatal:"}
rv32_workload_markers ==
    {"RISCV32 MIXED AMP CPU0 WORKLOAD DONE", "RISCV32 MIXED AMP CPU1 WORKLOAD DONE",
     "RISCV32 MIXED CLUSTER1 SMP WORKLOAD DONE",
     "RISCV32 MIXED ROLE_SYNC mask=0x7 status=READY"}
HybridPollMarkers == rv32_workload_markers \cup {"Linux version"}
rv32_role_markers == {"role=cluster0-amp-cpu0", "role=cluster0-amp-cpu1", "role=cluster1-smp"}
rv64_markers ==
    {"OpenSBI", "Linux version", "Loaded bootloader", "Loaded kernel",
     "Kernel panic", "fatal:", "panic"}
SimpleMarkers ==
    {"*** Booting Zephyr OS", "RISCV32 SIMPLE WORKLOAD START",
     "RISCV32 SIMPLE WORKLOAD DONE", "Kernel panic", "panic"}
\* rv32_mixed_command: required_markers and role_markers
MixedWorkloadMarkers == rv32_workload_markers
MixedRoleMarkers ==
    {"RISCV32 MIXED AMP CPU0 WORKLOAD START", "RISCV32 MIXED AMP CPU0 WORKLOAD DONE",
     "role=cluster0-amp-cpu0",
     "RISCV32 MIXED AMP CPU1 WORKLOAD START", "RISCV32 MIXED AMP CPU1 WORKLOAD DONE",
     "role=cluster0-amp-cpu1",
     "RISCV32 MIXED CLUSTER1 SMP WORKLOAD START", "RISCV32 MIXED CLUSTER1 SMP WORKLOAD DONE",
     "role=cluster1-smp"}

\* log files of a run
RunLog == "run.log"
Terminal == "system.platform.terminal"
MixedTerminals ==
    {"system.platform.terminal", "system.platform.terminal1", "system.platform.terminal2"}
Rv32Terminals ==
    {"system32.platform.terminal", "system32.platform.terminal1", "system32.platform.terminal2"}
Rv64Terminals == {"system64.platform.terminal"}
\* expected_marker_logs of the riscv_hybrid branch
expected_marker_logs == Rv32Terminals \cup Rv64Terminals

\* a marker that is a substring of another marker
SubstringPairs == {<<"panic", "Kernel panic">>}
\* an item in which the characters of a marker are in order but not adjacent
InterleavedRoleSync == "RISCV32 MIXED ROLE_[cpu1] SYNC mask=0x7 sta[cpu0]tus=READY"
InterleavedShellReady == "INITRAMFS_[uart1] SHELL_READY"
InterleavedSimpleDone == "RISCV32 SIMPLE [irq] WORKLOAD DONE"
InterleavedPairs ==
    {<<"RISCV32 MIXED ROLE_SYNC mask=0x7 status=READY", InterleavedRoleSync>>,
     <<"INITRAMFS_SHELL_READY", InterleavedShellReady>>,
     <<"RISCV32 SIMPLE WORKLOAD DONE", InterleavedSimpleDone>>}

Ev(f, items) == [file |-> f, items |-> items]

\* what the simulator may write during a run: the inputs of action Write
WriteEvents(t) ==
    CASE t = "riscv64_smp" ->
           {Ev(RunLog, {"Loaded bootloader", "Loaded kernel"}),
            Ev(Terminal, {}),
            Ev(Terminal, {"OpenSBI", "Linux version", "Run /init as init process"}),
            Ev(Terminal, {"INITRAMFS_SHELL_READY", "initramfs#"}),
            Ev(Terminal, {"Kernel panic"}),
            Ev(Terminal, {InterleavedShellReady, "initramfs#"}),
            Ev(RunLog, {"Run /init as init process", "INITRAMFS_SHELL_READY", "initramfs#"})}
      [] t = "riscv_hybrid" ->
           {Ev(RunLog, {"Loaded bootloader", "Loaded kernel"}),
            Ev("system32.platform.terminal", {"RISCV32 MIXED AMP CPU0 WORKLOAD DONE"}),
            Ev("system32.platform.terminal1", {"RISCV32 MIXED AMP CPU1 WORKLOAD DONE"}),
            Ev("system32.platform.terminal2",
               {"RISCV32 MIXED CLUSTER1 SMP WORKLOAD DONE",
                "RISCV32 MIXED ROLE_SYNC mask=0x7 status=READY"}),
            Ev("system64.platform.terminal", {"OpenSBI", "Linux version"}),
            Ev("system32.platform.terminal", {"Linux version"}),
            Ev(RunLog, rv32_workload_markers \cup {"OpenSBI", "Linux version"})}
      [] t = "riscv32_simple" ->
           {Ev(Terminal, {"*** Booting Zephyr OS", "RISCV32 SIMPLE WORKLOAD START",
                          "RISCV32 SIMPLE WORKLOAD DONE"}),
            Ev(Terminal, {"*** Booting Zephyr OS", InterleavedSimpleDone}),
            Ev(Terminal, {"Kernel panic"})}
      [] OTHER ->
           {Ev("system.platform.terminal", {"RISCV32 MIXED AMP CPU0 WORKLOAD DONE"}),
            Ev("system.platform.terminal1", {"RISCV32 MIXED AMP CPU1 WORKLOAD DONE"}),
            Ev("system.platform.terminal2", {"RISCV32 MIXED CLUSTER1 SMP WORKLOAD DONE"}),
            Ev("system.platform.terminal2", {InterleavedRoleSync}),
            Ev(RunLog, rv32_workload_markers),
            Ev("system.platform.terminal", {"panic"})}

\* run results (the dictionaries the supervision functions return)
NoResult == [unset |-> TRUE]
Result2(rc, to) == [returncode |-> rc, timeout |-> to]
Result4(rc, to, tom, raw) ==
    [returncode |-> rc, timeout |-> to, terminated_on_marker |-> tom, raw_returncode |-> raw]

\* the manifest file on disk
NoManifest == [keys |-> {}, dry_run |-> FALSE, run_result |-> NoResult,
               markers |-> <<>>, checks |-> {}, all_passed |-> FALSE]

VARIABLES
    target, mode, dry_run,  \* --target, --mode, --dry-run
    args_config,            \* --config ("" = the target's default)
    allow_no_disk,          \* --allow-no-disk
    timeout_sec,            \* --timeout-sec
    absent,                 \* prerequisite files that are not on the disk
    hinted,                 \* artifacts named on the command line
    pc,                     \* position of main()
    missing,                \* the list missing[]
    latest,                 \* the latest pointers reference this run's directory
    children,               \* child processes started so far
    build,                  \* how the trampoline build went
    manifest_file,          \* content of the manifest file (NoManifest: not written)
    exit_code,              \* value main() returned (-1: not returned)
    strategy,               \* supervision function in use
    stop_reason,            \* why the polling loop stops the child
    child, child_rc, exit_cause,    \* the simulator process
    sent,                   \* proc.terminate() / proc.kill() calls so far
    now, deadline,          \* time.monotonic() and the deadline of the run
    run_result,             \* what the supervision function returned
    written,                \* write events the simulator has done
    summary,                \* the dashboard's build_result_summary
    hist_ready,             \* history: polled files held all polled markers while
                            \* the child ran and the deadline had not passed
    poll_hit,               \* history: a marker check of the loop succeeded
    self_exit               \* history: when the child exited on its own

mainvars == <<target, mode, dry_run, args_config, allow_no_disk, timeout_sec, absent,
              hinted, pc, missing, latest, children, build, manifest_file, exit_code, strategy,
              stop_reason, child, child_rc, exit_cause, sent, now, deadline,
              run_result, written, summary, hist_ready, poll_hit, self_exit>>

vars == <<mainvars, mvars>>

\* groups of variables for the frame conditions
opts == <<target, mode, dry_run, args_config, allow_no_disk, timeout_sec, hinted>>
args == <<opts, absent>>
flow == <<missing, latest, children, build, manifest_file, exit_code>>
proc == <<child, child_rc, exit_cause>>
sup == <<strategy, stop_reason, proc, sent, now, deadline, run_result>>
hist == <<hist_ready, poll_hit, self_exit>>

\* values main()'s variables have before anything ran
MainFresh ==
    /\ pc = "start"
    /\ missing = <<>>
    /\ latest = FALSE
    /\ children = {}
    /\ build = "none"
    /\ manifest_file = NoManifest
    /\ exit_code = -1
    /\ strategy = "none"
    /\ stop_reason = "none"
    /\ child = "none"
    /\ child_rc = 0
    /\ exit_cause = "none"
    /\ sent = <<>>
    /\ now = 0
    /\ deadline = 0
    /\ run_result = NoResult
    /\ written = {}
    /\ summary = [built |-> FALSE, overall_pass |-> FALSE]
    /\ hist_ready = FALSE
    /\ poll_hit = FALSE
    /\ self_exit = "no"

\* the matcher's variables, unused by main()
MatchIdle ==
    /\ m_text = <<>>
    /\ m_marker = <<>>
    /\ m_plain = FALSE
    /\ m_inter = FALSE
    /\ m_pc = "idle"
    /\ m_case = NoCase

\* the resolver's variables, unused by main()
ResolveIdle ==
    /\ r_kind = "none"
    /\ r_hint = ""
    /\ r_cands = <<>>
    /\ r_fs = {}
    /\ r_ram_root = FALSE
    /\ r_out = ""
    /\ r_pc = "idle"

\* the latest pointers' variables, unused by main()
LinksIdle ==
    /\ l_procs = {}
    /\ l_fs = <<>>
    /\ l_init = <<>>
    /\ l_pc = <<>>
    /\ l_idx = <<>>
    /\ l_warned = <<>>

\* the log readers' variables, unused by main()
ReadIdle ==
    /\ rd_fs = <<>>
    /\ rd_out = NoRead
    /\ rd_pc = "idle"

\* the statistics reader's variables, unused by main()
StatsIdle ==
    /\ st_file = <<>>
    /\ st_out = NoRead
    /\ st_pc = "idle"

\* the variables of the comparison of the two loops, unused by main()
IterationIdle ==
    /\ q_file = <<>>
    /\ q_markers = <<>>
    /\ q_child = "none"
    /\ q_late = FALSE
    /\ q_single = "idle"
    /\ q_multi = "idle"

\* the dashboard job's variables, unused by main()
JobIdle ==
    /\ j_status = "none"
    /\ j_stage = "none"
    /\ j_progress = 0
    /\ j_returncode = -2
    /\ j_output = <<>>
    /\ j_pc = "idle"

FunctionsIdle ==
    /\ MatchIdle /\ ResolveIdle /\ LinksIdle /\ ReadIdle /\ StatsIdle /\ IterationIdle
    /\ JobIdle

Init ==
    /\ target \in Targets
    /\ mode \in Modes
    /\ dry_run \in BOOLEAN
    /\ args_config \in (IF target = "riscv64_smp" THEN {"", "fs_linux.py"} ELSE {""})
    /\ allow_no_disk \in (IF target = "riscv64_smp" /\ args_config # "" THEN BOOLEAN ELSE {FALSE})
    /\ timeout_sec \in 1..MaxTimeoutSec
    /\ absent \in {a \in SUBSET Prereqs(target) : Cardinality(a) <= MaxAbsent}
    /\ hinted \in SUBSET (absent \cap Hintable)
    /\ MainFresh
    /\ FunctionsIdle

config_path == IF args_config # "" THEN args_config ELSE default_config_for_target(target)

\* Path(p).exists() for a prerequisite path
Exists(name) == name \notin absent

\* Python's  x or y  on strings
OrElse(x, y) == IF x # "" THEN x ELSE y

\* args.<artifact>: the path given on the command line, "" when not given
ArgPath(name) == IF name \in hinted THEN "user:" ELSE ""

\* find_first_existing over the artifact's candidate list
find_first_existing(name) == IF Exists(name) THEN "auto:" ELSE ""

\* rv64_command / rv_hybrid_command: the artifact paths they return
bootloader == OrElse(ArgPath("bootloader"), find_first_existing("bootloader"))
initramfs == OrElse(ArgPath("initramfs"), find_first_existing("initramfs"))
use_conf_runtime == config_path = "riscv64_smp.py"
\* the default --command-line holds root=/dev/ram0
disk_image ==
    IF ArgPath("disk_image") # "" THEN ArgPath("disk_image")
    ELSE IF target = "riscv_hybrid" \/ use_conf_runtime THEN ""
    ELSE find_first_existing("disk_image")

Cat(s, t) == s \o t
IfMissing(cond, tag) == IF cond THEN <<tag>> ELSE <<>>

\* lines 728-759: directories, latest pointers, the two checks common to all targets
Setup ==
    /\ pc = "start"
    /\ latest' = TRUE
    /\ missing' = Cat(IfMissing(~Exists("gem5_bin"), "gem5 binary"),
                      IfMissing(~Exists("config"), "config"))
    /\ pc' = "prepare"
    /\ UNCHANGED <<args, children, build, manifest_file, exit_code, sup, written,
                   summary, hist, mvars>>

ElfMissing ==
    Cat(Cat(IfMissing(~Exists("amp_cpu0_elf"), "amp_cpu0_elf"),
            IfMissing(~Exists("amp_cpu1_elf"), "amp_cpu1_elf")),
        IfMissing(~Exists("smp_elf"), "smp_elf"))

\* the prerequisite checks of the target's branch that precede the trampoline build
BranchMissing ==
    CASE target = "riscv64_smp" ->
           Cat(Cat(IfMissing(~Exists("kernel_elf"), "kernel ELF"),
                   IfMissing(bootloader = "", "bootloader")),
               Cat(IfMissing(use_conf_runtime /\ initramfs = "", "initramfs"),
                   IfMissing(~use_conf_runtime /\ disk_image = "" /\ ~allow_no_disk,
                             "disk image")))
      [] target = "riscv_hybrid" ->
           Cat(Cat(IfMissing(~Exists("kernel_elf"), "kernel ELF"),
                   IfMissing(bootloader = "", "bootloader")),
               Cat(IfMissing(initramfs = "", "initramfs"), ElfMissing))
      [] target = "riscv32_simple" -> IfMissing(~Exists("simple_elf"), "simple_elf")
      [] OTHER -> ElfMissing

BuildsTrampoline == target \in {"riscv_hybrid", "riscv32_mixed"}

\* the command is built and the branch's prerequisites are checked
Prepare ==
    /\ pc = "prepare"
    /\ missing' = Cat(missing, BranchMissing)
    /\ pc' = IF BuildsTrampoline THEN "build" ELSE "decide"
    /\ UNCHANGED <<args, latest, children, build, manifest_file, exit_code, sup, written,
                   summary, hist, mvars>>

\* variant of BuildAttempted: the build is tried in a dry run too
BuildAttempted_InDryRun ==
    Exists("amp_cpu0_elf") /\ Exists("amp_cpu1_elf") /\ Exists("smp_elf")

\* maybe_build_mixed_boot returns at once unless the three workload ELFs exist
BuildAttempted ==
    ~dry_run /\ Exists("amp_cpu0_elf") /\ Exists("amp_cpu1_elf") /\ Exists("smp_elf")

BuildFrame ==
    UNCHANGED <<opts, latest, manifest_file, exit_code, sup, written, summary, hist, mvars>>

\* lines 902-909 / 1089-1096 when no build is run (dry-run, or an ELF is absent)
BuildSkipped ==
    /\ pc = "build"
    /\ ~BuildAttempted
    /\ missing' = Cat(missing, IfMissing(~Exists("mixed_boot_elf"), "mixed_boot_elf"))
    /\ build' = "skipped"
    /\ pc' = "decide"
    /\ UNCHANGED <<absent, children>>
    /\ BuildFrame

\* the build script ran and wrote the trampoline
BuildDone ==
    /\ pc = "build"
    /\ BuildAttempted
    /\ children' = children \cup {"mixed_boot_build"}
    /\ absent' = absent \ {"mixed_boot_elf"}
    /\ missing' = missing
    /\ build' = "done"
    /\ pc' = "decide"
    /\ BuildFrame

\* readelf or the build script failed: the exception is caught at 905 / 1092
BuildFailed ==
    /\ pc = "build"
    /\ BuildAttempted
    /\ children' = children \cup {"mixed_boot_build"}
    /\ missing' = Cat(Append(missing, "mixed_boot_build"),
                      IfMissing(~Exists("mixed_boot_elf"), "mixed_boot_elf"))
    /\ build' = "failed"
    /\ pc' = "decide"
    /\ UNCHANGED absent
    /\ BuildFrame

\* the manifest dictionary as it stands before a run
BaseManifest ==
    [keys |-> {"timestamp", "target", "mode", "dry_run", "latest_links", "commands"},
     dry_run |-> dry_run, run_result |-> NoResult, markers |-> <<>>, checks |-> {},
     all_passed |-> FALSE]

ExitFrame ==
    UNCHANGED <<args, missing, latest, children, build, sup, written, summary, hist, mvars>>

\* dry-run: warn, write the manifest, return 0
DryRunExit ==
    /\ pc = "decide"
    /\ dry_run
    /\ manifest_file' = BaseManifest
    /\ exit_code' = 0
    /\ pc' = "done"
    /\ ExitFrame

\* missing prerequisites: write the manifest, return 2
MissingExit ==
    /\ pc = "decide"
    /\ ~dry_run
    /\ missing # <<>>
    /\ manifest_file' = BaseManifest
    /\ exit_code' = 2
    /\ pc' = "done"
    /\ ExitFrame

\* which supervision function main() calls for the target and mode
StrategyFor ==
    CASE target = "riscv64_smp" /\ use_conf_runtime /\ mode = "simple" -> "markers"
      [] target = "riscv_hybrid" /\ mode = "simple" -> "markers_multi"
      [] OTHER -> "bounded"

\* Popen / subprocess.run starts the simulator; the deadline is fixed
Launch ==
    /\ pc = "decide"
    /\ ~dry_run
    /\ missing = <<>>
    /\ strategy' = StrategyFor
    /\ children' = children \cup {"simulator"}
    /\ child' = "running"
    /\ deadline' = now + timeout_sec
    /\ pc' = IF StrategyFor = "bounded" THEN "run_one" ELSE "poll_markers"
    /\ UNCHANGED <<args, missing, latest, build, manifest_file, exit_code, stop_reason,
                   child_rc, exit_cause, sent, now, run_result, written, summary, hist,
                   mvars>>


\* content and existence of a log file, given the write events done
FileItems(w, f) == UNION {e.items : e \in {x \in w : x.file = f}}
FileExists(w, f) == f = RunLog \/ \E e \in w : e.file = f

\* variant of MarkerIn: the interleaved tier is always on
MarkerIn_AlwaysInterleaved(items, marker, allow_interleaved) ==
    \E x \in items :
        \/ x = marker
        \/ <<marker, x>> \in SubstringPairs
        \/ <<marker, x>> \in InterleavedPairs

\* marker_present on a text made of the given items
MarkerIn(items, marker, allow_interleaved) ==
    \E x \in items :
        \/ x = marker
        \/ <<marker, x>> \in SubstringPairs
        \/ allow_interleaved /\ <<marker, x>> \in InterleavedPairs

\* the concatenation read_markers_from_paths and the multi loop build
Merged(w, paths) == UNION {FileItems(w, f) : f \in {x \in paths : FileExists(w, x)}}

read_markers_from_paths(w, paths, markers, allow_interleaved) ==
    [m \in markers |-> MarkerIn(Merged(w, paths), m, allow_interleaved)]

\* the marker check of run_one_until_markers (lines 610-612)
SingleSatisfied(w) ==
    /\ FileExists(w, Terminal)
    /\ \A m \in Rv64PollMarkers : MarkerIn(FileItems(w, Terminal), m, FALSE)

\* variant of MultiSatisfied: the markers are looked for in each file apart
MultiSatisfied_OneFile(w) ==
    \E f \in expected_marker_logs :
        /\ FileExists(w, f)
        /\ \A m \in HybridPollMarkers : MarkerIn(FileItems(w, f), m, FALSE)

\* the marker check of run_one_until_markers_multi (lines 667-672)
MultiSatisfied(w) ==
    /\ \E f \in expected_marker_logs : FileExists(w, f)
    /\ \A m \in HybridPollMarkers : MarkerIn(Merged(w, expected_marker_logs), m, FALSE)

MarkersSatisfied(w) ==
    IF strategy = "markers" THEN SingleSatisfied(w) ELSE MultiSatisfied(w)

Gated == strategy \in {"markers", "markers_multi"}

\* the simulator writes to one of its log files
Write(e) ==
    /\ child = "running"
    /\ e \notin written
    /\ written' = written \cup {e}
    /\ hist_ready' = (hist_ready \/ (Gated /\ now < deadline /\ MarkersSatisfied(written')))
    /\ UNCHANGED <<args, flow, pc, strategy, stop_reason, proc, sent, now, deadline,
                   run_result, summary, poll_hit, self_exit, mvars>>

\* the simulator ends on its own with exit status rc; under subprocess.run
\* the child is killed at the instant the timeout expires
ChildExit(rc) ==
    /\ child = "running"
    /\ pc = "run_one" => now < deadline
    /\ child' = "exited"
    /\ child_rc' = rc
    /\ exit_cause' = "self"
    /\ self_exit' = IF sent # <<>> THEN "after_terminate"
                    ELSE IF now < deadline THEN "before_deadline"
                    ELSE "after_deadline"
    /\ UNCHANGED <<args, flow, pc, strategy, stop_reason, sent, now, deadline, run_result,
                   written, summary, hist_ready, poll_hit, mvars>>

\* run_one: time passes while subprocess.run waits
RunOneTick ==
    /\ pc = "run_one"
    /\ child = "running"
    /\ now < deadline
    /\ now' = now + 1
    /\ UNCHANGED <<args, flow, pc, strategy, stop_reason, proc, sent, deadline, run_result,
                   written, summary, hist, mvars>>

\* run_one, line 584: the child ended within the timeout
RunOneExited ==
    /\ pc = "run_one"
    /\ child = "exited"
    /\ run_result' = Result2(child_rc, FALSE)
    /\ pc' = "validate"
    /\ UNCHANGED <<args, flow, strategy, stop_reason, proc, sent, now, deadline, written,
                   summary, hist, mvars>>

\* variant of RunOneTimeout: the status of the killed child is reported as is
RunOneTimeout_RawCode ==
    /\ pc = "run_one"
    /\ child = "running"
    /\ now >= deadline
    /\ sent' = Append(sent, "kill")
    /\ child' = "exited"
    /\ child_rc' = SIGKILL_RC
    /\ exit_cause' = "sigkill"
    /\ run_result' = Result2(SIGKILL_RC, FALSE)
    /\ pc' = "validate"
    /\ UNCHANGED <<args, flow, strategy, stop_reason, now, deadline, written, summary,
                   hist, mvars>>

\* run_one, lines 585-586: subprocess.run kills the child, reaps it and raises
\* TimeoutExpired
RunOneTimeout ==
    /\ pc = "run_one"
    /\ child = "running"
    /\ now >= deadline
    /\ sent' = Append(sent, "kill")
    /\ child' = "exited"
    /\ child_rc' = SIGKILL_RC
    /\ exit_cause' = "sigkill"
    /\ run_result' = Result2(TimeoutCode, TRUE)
    /\ pc' = "validate"
    /\ UNCHANGED <<args, flow, strategy, stop_reason, now, deadline, written, summary,
                   hist, mvars>>

\* variant of PollMarkers: the deadline is tested before the markers
PollMarkers_DeadlineFirst ==
    /\ pc = "poll_markers"
    /\ IF now >= deadline
       THEN /\ stop_reason' = "timeout"
            /\ pc' = "terminate"
            /\ UNCHANGED poll_hit
       ELSE IF MarkersSatisfied(written)
       THEN /\ stop_reason' = "marker"
            /\ poll_hit' = TRUE
            /\ pc' = "terminate"
       ELSE /\ pc' = "poll_process"
            /\ UNCHANGED <<stop_reason, poll_hit>>
    /\ UNCHANGED <<args, flow, strategy, proc, sent, now, deadline, run_result, written,
                   summary, hist_ready, self_exit, mvars>>

\* lines 610-612 / 667-672: the marker files are read and the markers tested
PollMarkers ==
    /\ pc = "poll_markers"
    /\ IF MarkersSatisfied(written)
       THEN /\ stop_reason' = "marker"
            /\ poll_hit' = TRUE
            /\ pc' = "terminate"
       ELSE /\ pc' = "poll_process"
            /\ UNCHANGED <<stop_reason, poll_hit>>
    /\ UNCHANGED <<args, flow, strategy, proc, sent, now, deadline, run_result, written,
                   summary, hist_ready, self_exit, mvars>>

\* variant of PollProcess: an ended child is always reported as a success
PollProcess_ZeroCode ==
    /\ pc = "poll_process"
    /\ IF child = "exited"
       THEN /\ run_result' = Result2(0, FALSE)
            /\ pc' = "validate"
       ELSE /\ pc' = "check_deadline"
            /\ UNCHANGED run_result
    /\ UNCHANGED <<args, flow, strategy, stop_reason, proc, sent, now, deadline, written,
                   summary, hist, mvars>>

\* lines 626-628 / 686-688: proc.poll()
PollProcess ==
    /\ pc = "poll_process"
    /\ IF child = "exited"
       THEN /\ run_result' = Result2(child_rc, FALSE)
            /\ pc' = "validate"
       ELSE /\ pc' = "check_deadline"
            /\ UNCHANGED run_result
    /\ UNCHANGED <<args, flow, strategy, stop_reason, proc, sent, now, deadline, written,
                   summary, hist, mvars>>

\* variant of CheckDeadline: the run is stopped only at the very instant of
\* the deadline
CheckDeadline_ExactInstant ==
    /\ pc = "check_deadline"
    /\ IF now = deadline
       THEN /\ stop_reason' = "timeout"
            /\ pc' = "terminate"
       ELSE /\ pc' = "sleep"
            /\ UNCHANGED stop_reason
    /\ UNCHANGED <<args, flow, strategy, proc, sent, now, deadline, run_result, written,
                   summary, hist, mvars>>

\* lines 630 / 690: the deadline test
CheckDeadline ==
    /\ pc = "check_deadline"
    /\ IF now >= deadline
       THEN /\ stop_reason' = "timeout"
            /\ pc' = "terminate"
       ELSE /\ pc' = "sleep"
            /\ UNCHANGED stop_reason
    /\ UNCHANGED <<args, flow, strategy, proc, sent, now, deadline, run_result, written,
                   summary, hist, mvars>>

\* lines 643 / 703: time.sleep(2)
Sleep ==
    /\ pc = "sleep"
    /\ now' = now + PollSec
    /\ pc' = "poll_markers"
    /\ UNCHANGED <<args, flow, strategy, stop_reason, proc, sent, deadline, run_result,
                   written, summary, hist, mvars>>

\* variant of Terminate: at the deadline the child is killed at once
Terminate_KillAtDeadline ==
    /\ pc = "terminate"
    /\ sent' = Append(sent, IF stop_reason = "timeout" THEN "kill" ELSE "terminate")
    /\ pc' = "wait_grace"
    /\ UNCHANGED <<args, flow, strategy, stop_reason, proc, now, deadline, run_result,
                   written, summary, hist, mvars>>

\* proc.terminate()
Terminate ==
    /\ pc = "terminate"
    /\ sent' = Append(sent, "terminate")
    /\ pc' = "wait_grace"
    /\ UNCHANGED <<args, flow, strategy, stop_reason, proc, now, deadline, run_result,
                   written, summary, hist, mvars>>

\* variant of StopResult: a stop on markers reports the status of the stopped child
StopResult_RawOnMarker(raw) ==
    IF stop_reason = "marker" THEN Result4(raw, FALSE, TRUE, raw)
    ELSE Result4(TimeoutCode, TRUE, FALSE, raw)

\* variant of StopResult: a stop at the deadline is reported as a success
StopResult_TimeoutAsSuccess(raw) ==
    IF stop_reason = "marker" THEN Result4(0, FALSE, TRUE, raw)
    ELSE Result4(0, FALSE, FALSE, raw)

\* variant of StopResult: a stop at the deadline also claims the markers
StopResult_BothFlags(raw) ==
    IF stop_reason = "marker" THEN Result4(0, FALSE, TRUE, raw)
    ELSE Result4(TimeoutCode, TRUE, TRUE, raw)

\* the dictionary returned after the child was stopped; raw is proc.returncode
StopResult(raw) ==
    IF stop_reason = "marker" THEN Result4(0, FALSE, TRUE, raw)
    ELSE Result4(TimeoutCode, TRUE, FALSE, raw)

\* proc.wait(timeout=20) returns at once: the child had already ended
WaitReaped ==
    /\ pc = "wait_grace"
    /\ child = "exited"
    /\ run_result' = StopResult(child_rc)
    /\ pc' = "validate"
    /\ UNCHANGED <<args, flow, strategy, stop_reason, proc, sent, now, deadline, written,
                   summary, hist, mvars>>

\* proc.wait(timeout=20) returns: the child ended on SIGTERM within the grace period
WaitTerminated ==
    /\ pc = "wait_grace"
    /\ child = "running"
    /\ child' = "exited"
    /\ child_rc' = SIGTERM_RC
    /\ exit_cause' = "sigterm"
    /\ run_result' = StopResult(SIGTERM_RC)
    /\ pc' = "validate"
    /\ UNCHANGED <<args, flow, strategy, stop_reason, sent, now, deadline, written,
                   summary, hist, mvars>>

\* proc.wait(timeout=20) raises TimeoutExpired: the child is still running
GraceExpired ==
    /\ pc = "wait_grace"
    /\ child = "running"
    /\ pc' = "kill"
    /\ UNCHANGED <<args, flow, strategy, stop_reason, proc, sent, now, deadline,
                   run_result, written, summary, hist, mvars>>

\* variant of Kill: the result is returned without waiting for the child
Kill_NoWait ==
    /\ pc = "kill"
    /\ sent' = Append(sent, "kill")
    /\ run_result' = StopResult(child_rc)
    /\ pc' = "validate"
    /\ UNCHANGED <<args, flow, strategy, stop_reason, proc, now, deadline, written,
                   summary, hist, mvars>>

\* proc.kill(); proc.wait(timeout=5): SIGKILL cannot be ignored, the child is
\* reaped within the wait
Kill ==
    /\ pc = "kill"
    /\ sent' = Append(sent, "kill")
    /\ IF child = "running"
       THEN /\ child' = "exited"
            /\ child_rc' = SIGKILL_RC
            /\ exit_cause' = "sigkill"
            /\ run_result' = StopResult(SIGKILL_RC)
       ELSE /\ UNCHANGED proc
            /\ run_result' = StopResult(child_rc)
    /\ pc' = "validate"
    /\ UNCHANGED <<args, flow, strategy, stop_reason, now, deadline, written, summary,
                   hist, mvars>>

\* all(table.values()) for a check table, a set of <<name, value>> pairs
AllTrue(table) == \A c \in table : c[2]

\* the files a glob of terminal logs finds (the default path when it finds none
\* does not exist, and reads as nothing)
Globbed(w, names) == {f \in names : FileExists(w, f)}

\* lines 813-827: the markers of riscv64_smp
Rv64MarkersRead(w) == read_markers_from_paths(w, {RunLog, Terminal}, Rv64Markers, FALSE)

\* lines 828-848: the check table of riscv64_smp
Rv64Checks(w, rr) ==
    LET markers == Rv64MarkersRead(w)
        shell == markers["INITRAMFS_SHELL_READY"] /\ markers["initramfs#"]
        required_markers_ok ==
            /\ markers["Loaded bootloader"]
            /\ markers["Loaded kernel"]
            /\ use_conf_runtime => markers["Run /init as init process"]
            /\ (use_conf_runtime /\ mode = "simple") => shell
    IN  {<<"returncode_ok", rr.returncode = 0>>,
         <<"required_markers_ok", required_markers_ok>>,
         <<"terminal_markers_ok", markers["OpenSBI"] \/ markers["Linux version"]>>,
         <<"uart_log_present", FileExists(w, Terminal) /\ FileItems(w, Terminal) # {}>>,
         <<"panic_free", ~markers["Kernel panic"] /\ ~markers["fatal:"]>>,
         <<"shell_prompt_ok", ~use_conf_runtime \/ mode # "simple" \/ shell>>}

\* lines 952-985: the markers of riscv_hybrid
HybridMarkersRead(w) ==
    LET rv32_observed ==
            read_markers_from_paths(w, {RunLog} \cup Globbed(w, Rv32Terminals),
                                    rv32_workload_markers \cup rv32_role_markers, FALSE)
        rv64_observed ==
            read_markers_from_paths(w, {RunLog} \cup Globbed(w, Rv64Terminals),
                                    rv64_markers, FALSE)
    IN  [m \in (DOMAIN rv32_observed) \cup (DOMAIN rv64_observed) |->
            IF m \in DOMAIN rv64_observed THEN rv64_observed[m]
            ELSE rv32_observed[m]]

\* lines 986-999: the check table of riscv_hybrid
HybridChecks(w, rr) ==
    LET markers == HybridMarkersRead(w)
        rv32_ok == \A m \in rv32_workload_markers : markers[m]
    IN  {<<"single_command", TRUE>>,
         <<"returncode_ok", rr.returncode = 0>>,
         <<"rv32_markers_ok", rv32_ok>>,
         <<"rv64_boot_ok", markers["OpenSBI"] /\ markers["Linux version"]>>,
         <<"required_markers_ok",
           rv32_ok /\ markers["OpenSBI"] /\ markers["Linux version"]
                   /\ markers["Loaded bootloader"] /\ markers["Loaded kernel"]>>,
         <<"panic_free",
           ~markers["Kernel panic"] /\ ~markers["panic"] /\ ~markers["fatal:"]>>}

\* lines 1124-1130: the markers of riscv32_mixed
MixedMarkersRead(w) ==
    LET terminal_logs == Globbed(w, MixedTerminals)
        workload_and_role_markers ==
            read_markers_from_paths(w, {RunLog} \cup terminal_logs,
                                    MixedWorkloadMarkers \cup MixedRoleMarkers, TRUE)
        panic_markers ==
            read_markers_from_paths(w, {RunLog} \cup terminal_logs,
                                    {"Kernel panic", "panic"}, FALSE)
    IN  [m \in (DOMAIN workload_and_role_markers) \cup (DOMAIN panic_markers) |->
            IF m \in DOMAIN panic_markers THEN panic_markers[m]
            ELSE workload_and_role_markers[m]]

\* lines 1116-1142: the check table of riscv32_mixed
MixedChecks(w, rr) ==
    LET terminal_logs == Globbed(w, MixedTerminals)
        terminal_markers ==
            read_markers_from_paths(w, terminal_logs, MixedWorkloadMarkers, TRUE)
        markers == MixedMarkersRead(w)
        all_markers == \A m \in MixedWorkloadMarkers : markers[m]
        all_terminal == \A m \in MixedWorkloadMarkers : terminal_markers[m]
        terminal_required_ok ==
            IF ~all_terminal \/ terminal_logs = {} THEN all_markers ELSE all_terminal
    IN  {<<"single_command", TRUE>>,
         <<"returncode_ok", rr.returncode = 0>>,
         <<"required_markers_ok", all_markers>>,
         <<"terminal_markers_ok", terminal_required_ok>>,
         <<"panic_free", ~markers["Kernel panic"] /\ ~markers["panic"]>>}

RunKeys == {"run_log", "run_result", "markers"}

\* variant of ValidateChecked: a timed-out run exits with 124
ValidateChecked_TimeoutCode ==
    /\ pc = "validate"
    /\ target # "riscv32_simple"
    /\ LET checks == CASE target = "riscv64_smp" -> Rv64Checks(written, run_result)
                       [] target = "riscv_hybrid" -> HybridChecks(written, run_result)
                       [] OTHER -> MixedChecks(written, run_result)
           markers == CASE target = "riscv64_smp" -> Rv64MarkersRead(written)
                        [] target = "riscv_hybrid" -> HybridMarkersRead(written)
                        [] OTHER -> MixedMarkersRead(written)
       IN  /\ manifest_file' = [BaseManifest EXCEPT
                                   !.keys = @ \cup RunKeys \cup {"checks", "validation"},
                                   !.run_result = run_result,
                                   !.markers = markers,
                                   !.checks = checks,
                                   !.all_passed = AllTrue(checks)]
           /\ exit_code' = IF run_result.timeout THEN TimeoutCode
                        ELSE IF ~AllTrue(checks) THEN 1 ELSE 0
    /\ pc' = "done"
    /\ UNCHANGED <<args, missing, latest, children, build, sup, written, summary, hist,
                   mvars>>

\* the three branches that build a check table: manifest with checks and
\* validation.all_passed, exit 1 unless every check is true
ValidateChecked ==
    /\ pc = "validate"
    /\ target # "riscv32_simple"
    /\ LET checks == CASE target = "riscv64_smp" -> Rv64Checks(written, run_result)
                       [] target = "riscv_hybrid" -> HybridChecks(written, run_result)
                       [] OTHER -> MixedChecks(written, run_result)
           markers == CASE target = "riscv64_smp" -> Rv64MarkersRead(written)
                        [] target = "riscv_hybrid" -> HybridMarkersRead(written)
                        [] OTHER -> MixedMarkersRead(written)
       IN  /\ manifest_file' = [BaseManifest EXCEPT
                                   !.keys = @ \cup RunKeys \cup {"checks", "validation"},
                                   !.run_result = run_result,
                                   !.markers = markers,
                                   !.checks = checks,
                                   !.all_passed = AllTrue(checks)]
           /\ exit_code' = IF ~AllTrue(checks) THEN 1 ELSE 0
    /\ pc' = "done"
    /\ UNCHANGED <<args, missing, latest, children, build, sup, written, summary, hist,
                   mvars>>

\* lines 1048-1057: the markers of riscv32_simple
SimpleMarkersRead(w) == read_markers_from_paths(w, {RunLog, Terminal}, SimpleMarkers, FALSE)

\* lines 1046-1071: riscv32_simple writes markers and sim_insts, no check
\* table, and returns the run's returncode
ValidateSimple ==
    /\ pc = "validate"
    /\ target = "riscv32_simple"
    /\ manifest_file' = [BaseManifest EXCEPT
                            !.keys = @ \cup RunKeys \cup {"sim_insts"},
                            !.run_result = run_result,
                            !.markers = SimpleMarkersRead(written)]
    /\ exit_code' = run_result.returncode
    /\ pc' = "done"
    /\ UNCHANGED <<args, missing, latest, children, build, sup, written, summary, hist,
                   mvars>>

\* web_dashboard.build_result_summary, lines 329-373, on the run's manifest
overall_pass(manifest) ==
    LET checks == IF "checks" \in manifest.keys THEN manifest.checks ELSE {}
        rc_is_int == "run_result" \in manifest.keys
    IN  IF rc_is_int /\ manifest.run_result.returncode = 0
        THEN (IF checks # {} THEN AllTrue(checks) ELSE TRUE)
        ELSE FALSE

Summarise ==
    /\ pc = "done"
    /\ summary' = [built |-> TRUE, overall_pass |-> overall_pass(manifest_file)]
    /\ pc' = "summarised"
    /\ UNCHANGED <<args, flow, strategy, stop_reason, proc, sent, now, deadline,
                   run_result, written, hist, mvars>>

Next ==
    \/ Setup
    \/ Prepare
    \/ BuildSkipped
    \/ BuildDone
    \/ BuildFailed
    \/ DryRunExit
    \/ MissingExit
    \/ Launch
    \/ \E e \in WriteEvents(target) : Write(e)
    \/ \E rc \in ExitCodes : ChildExit(rc)
    \/ RunOneTick
    \/ RunOneExited
    \/ RunOneTimeout
    \/ PollMarkers
    \/ PollProcess
    \/ CheckDeadline
    \/ Sleep
    \/ Terminate
    \/ WaitReaped
    \/ WaitTerminated
    \/ GraceExpired
    \/ Kill
    \/ ValidateChecked
    \/ ValidateSimple
    \/ Summarise

Spec == Init /\ [][Next]_vars

(***************************************************************************)
(* Properties of the supervised run and of main()                          *)
(***************************************************************************)

\* the supervision function has returned
Returned == pc \in {"validate", "done", "summarised"} /\ "simulator" \in children
\* main() has returned after a run
Validated == pc \in {"done", "summarised"} /\ "simulator" \in children
HasChecks == "checks" \in manifest_file.keys
CheckIs(name, v) == <<name, v>> \in manifest_file.checks
Tom(rr) == "terminated_on_marker" \in DOMAIN rr /\ rr.terminated_on_marker

PolledFiles == IF strategy = "markers" THEN {Terminal} ELSE expected_marker_logs
PolledMarkers == IF strategy = "markers" THEN Rv64PollMarkers ELSE HybridPollMarkers
PolledEmpty == \A f \in PolledFiles : FileItems(written, f) = {}
RunLogHoldsPolled ==
    \A m \in PolledMarkers : MarkerIn(FileItems(written, RunLog), m, FALSE)

\* C3 as stated: in a marker-gated run, if the polled marker files come to
\* hold every polled marker before the deadline while the child runs, the
\* result has returncode 0 and terminated_on_marker, and every
\* required-marker check of the validation is true.
C3_MarkersBeforeDeadline ==
    (Gated /\ Validated /\ hist_ready) =>
        /\ run_result.returncode = 0
        /\ Tom(run_result)
        /\ CheckIs("required_markers_ok", TRUE)
        /\ target = "riscv64_smp" => CheckIs("shell_prompt_ok", TRUE)
        /\ target = "riscv_hybrid" => CheckIs("rv32_markers_ok", TRUE)

\* C3 amended: in a marker-gated run, if a marker check of the polling loop
\* finds every polled marker, the result has returncode 0, timeout false and
\* terminated_on_marker true, the check returncode_ok is true and, for
\* riscv64_smp, shell_prompt_ok is true.
C3_MarkerCheckHit ==
    (Gated /\ Validated /\ poll_hit) =>
        /\ run_result.returncode = 0
        /\ ~run_result.timeout
        /\ Tom(run_result)
        /\ CheckIs("returncode_ok", TRUE)
        /\ target = "riscv64_smp" => CheckIs("shell_prompt_ok", TRUE)

\* a run stopped on its markers whose required_markers_ok is nevertheless false
C3_Witness ==
    /\ Gated /\ Validated /\ poll_hit
    /\ Tom(run_result)
    /\ CheckIs("required_markers_ok", FALSE)

\* C4 as stated: in a marker-gated run whose marker files stay empty and whose
\* child does not exit before the deadline, the result has returncode 124 and
\* timeout true, and required_markers_ok is false.
C4_EmptyUntilDeadline ==
    (Gated /\ Validated /\ PolledEmpty /\ self_exit # "before_deadline") =>
        /\ run_result.returncode = TimeoutCode
        /\ run_result.timeout
        /\ CheckIs("required_markers_ok", FALSE)

\* C4 amended: in a marker-gated run whose marker files stay empty and whose
\* child does not exit by itself before the supervisor stops it, the result
\* has returncode 124 and timeout true, returncode_ok is false, and
\* required_markers_ok is false unless the run log holds every polled marker.
C4_EmptyUntilStopped ==
    (Gated /\ Validated /\ PolledEmpty /\ self_exit \in {"no", "after_terminate"}) =>
        /\ run_result.returncode = TimeoutCode
        /\ run_result.timeout
        /\ ~Tom(run_result)
        /\ CheckIs("returncode_ok", FALSE)
        /\ ~RunLogHoldsPolled => CheckIs("required_markers_ok", FALSE)

\* a run stopped at the deadline with empty marker files
C4_Witness ==
    /\ Gated /\ Validated /\ PolledEmpty
    /\ self_exit = "no"
    /\ run_result.timeout
    /\ CheckIs("required_markers_ok", FALSE)

SupervisionPcs ==
    {"run_one", "poll_markers", "poll_process", "check_deadline", "sleep", "terminate",
     "wait_grace", "kill"}
SupervisorStep ==
    \/ RunOneTick \/ RunOneExited \/ RunOneTimeout
    \/ PollMarkers \/ PollProcess \/ CheckDeadline \/ Sleep
    \/ Terminate \/ WaitReaped \/ WaitTerminated \/ GraceExpired \/ Kill

C6_SelfExitReportsRealCode ==
    (Gated /\ Returned /\ self_exit \in {"before_deadline", "after_deadline"}) =>
        run_result.returncode = child_rc

\* C6 amended: in a marker-gated run, a child that exits on its own before the
\* supervisor has terminated it gives its real exit code as returncode when
\* proc.poll() finds the exit; when a marker check finds the markers first the
\* returncode is 0, when the deadline check finds the deadline reached first
\* it is 124, and in both cases raw_returncode is the real exit code.
C6_SelfExitCodeOrRaw ==
    (Gated /\ Returned /\ self_exit \in {"before_deadline", "after_deadline"}) =>
        IF stop_reason = "none"
        THEN run_result = Result2(child_rc, FALSE)
        ELSE /\ run_result.raw_returncode = child_rc
             /\ run_result.returncode = (IF stop_reason = "marker" THEN 0 ELSE TimeoutCode)
             /\ stop_reason = "marker" => poll_hit
             /\ stop_reason = "timeout" => now >= deadline

\* a child that failed by itself and is reported as a success on markers
C6_Witness ==
    /\ Gated /\ Returned
    /\ self_exit = "before_deadline"
    /\ child_rc = 1
    /\ run_result.returncode = 0
    /\ run_result.raw_returncode = 1

\* C7: under the bounded strategy a child that has not exited within the
\* timeout is killed and the result is {timeout: true, returncode: 124}; a
\* child that exits within the timeout gives {timeout: false, returncode: its
\* real exit code}.
C7_BoundedResult ==
    (strategy = "bounded" /\ Returned) =>
        IF exit_cause = "self"
        THEN /\ run_result = Result2(child_rc, FALSE)
             /\ self_exit = "before_deadline"
             /\ sent = <<>>
        ELSE /\ run_result = Result2(TimeoutCode, TRUE)
             /\ exit_cause = "sigkill"
             /\ child = "exited"
             /\ now >= deadline

\* a bounded run that timed out
C7_Witness ==
    /\ strategy = "bounded" /\ Returned
    /\ run_result.timeout
    /\ exit_cause = "sigkill"

\* the check table of the manifest, empty when the manifest has none
CheckTable == IF HasChecks THEN manifest_file.checks ELSE {}
Verdict == CheckTable # {} /\ AllTrue(CheckTable)

\* C8: the verdict of a run is the conjunction of the entries of its check
\* table, failing when the table is empty or absent; so for the manifest's
\* validation.all_passed, for the exit code and for the dashboard's
\* overall_pass.
C8_VerdictIsConjunctionOfChecks ==
    (pc = "summarised" /\ "simulator" \in children) =>
        /\ "validation" \in manifest_file.keys => (manifest_file.all_passed <=> Verdict)
        /\ (exit_code = 0) <=> Verdict
        /\ summary.overall_pass <=> Verdict

\* C9: the exit code of a non-dry-run invocation is 2 when the missing list is
\* not empty, 124 when the run ended by timeout, 1 when the process failed or
\* a validation check is false, 0 otherwise.
C9_ExitCodes ==
    (pc \in {"done", "summarised"} /\ ~dry_run) =>
        exit_code =
            IF missing # <<>> THEN 2
            ELSE IF run_result.timeout THEN TimeoutCode
            ELSE IF run_result.returncode # 0 \/ ~AllTrue(CheckTable) THEN 1
            ELSE 0

\* the files the target cannot run without that are not on the disk
MandatoryAbsent ==
    absent \cap
        (IF target = "riscv64_smp"
         THEN {"gem5_bin", "config", "kernel_elf", "bootloader"} \cup
              (IF use_conf_runtime THEN {"initramfs"}
               ELSE IF allow_no_disk THEN {} ELSE {"disk_image"})
         ELSE Prereqs(target))
MissingTag(f) ==
    CASE f = "gem5_bin" -> "gem5 binary"
      [] f = "kernel_elf" -> "kernel ELF"
      [] f = "disk_image" -> "disk image"
      [] OTHER -> f
Listed(tag) == \E i \in DOMAIN missing : missing[i] = tag

\* C10: every absent mandatory prerequisite file is in the missing list; with
\* a non-empty missing list a dry-run returns 0 and a non-dry-run returns 2
\* without launching the simulator, the manifest being written in both cases;
\* a failed trampoline build is an entry of the missing list.
C10_MissingPrerequisites ==
    pc \in {"done", "summarised"} =>
        /\ \A f \in MandatoryAbsent : Listed(MissingTag(f))
        /\ missing # <<>> =>
               /\ manifest_file # NoManifest
               /\ exit_code = (IF dry_run THEN 0 ELSE 2)
               /\ "simulator" \notin children
        /\ build = "failed" => Listed("mixed_boot_build")

\* C11: with the dry-run flag no child process is ever started (neither the
\* simulator nor the trampoline build), and main returns 0 with a manifest
\* whose dry_run is true, whatever is missing.
C11_DryRunStartsNothing ==
    dry_run =>
        /\ children = {}
        /\ child = "none"
        /\ build \in {"none", "skipped"}
        /\ pc \notin SupervisionPcs \cup {"validate"}
        /\ pc \in {"done", "summarised"} =>
               /\ exit_code = 0
               /\ "dry_run" \in manifest_file.keys
               /\ manifest_file.dry_run

\* a dry run of a target with a trampoline that ended with files missing
C11_Witness ==
    /\ dry_run
    /\ pc = "done"
    /\ BuildsTrampoline
    /\ missing # <<>>
    /\ exit_code = 0

\* every polled marker is in at least one of the marker-log files
EachMarkerInSomeFile ==
    \A m \in HybridPollMarkers :
        \E e \in written :
            /\ e.file \in expected_marker_logs
            /\ \E x \in e.items : x = m \/ <<m, x>> \in SubstringPairs

\* C15: in the multi-console variant a poll stops the run on markers exactly
\* when each polled marker is in at least one of the marker-log files,
\* whichever file holds which marker.
C15_MultiConsolePoll ==
    [][(strategy = "markers_multi" /\ pc = "poll_markers" /\ pc' # "poll_markers") =>
           IF EachMarkerInSomeFile
           THEN pc' = "terminate" /\ stop_reason' = "marker" /\ poll_hit'
           ELSE pc' = "poll_process" /\ stop_reason' = "none"]_vars

\* a poll that found the markers spread over the four console files
C15_Witness ==
    /\ strategy = "markers_multi"
    /\ pc = "terminate"
    /\ stop_reason = "marker"
    /\ \A f \in expected_marker_logs : FileItems(written, f) # {}
    /\ \A e \in written : e.file # RunLog

\* the marker is whole in an item of one of the files
PlainlyIn(w, files, m) ==
    \E e \in w :
        /\ e.file \in files
        /\ \E x \in e.items : x = m \/ <<m, x>> \in SubstringPairs

SingleConsole == {"riscv64_smp", "riscv32_simple"}

\* C18: for the single-console targets no marker is ever found through the
\* interleaved tier, neither by the polling loop nor by the validation: a
\* marker counts as present only when a file holds it whole.
C18_SingleConsoleNeverInterleaved ==
    target \in SingleConsole =>
        /\ poll_hit => \A m \in Rv64PollMarkers : PlainlyIn(written, {Terminal}, m)
        /\ Validated =>
               \A m \in DOMAIN manifest_file.markers :
                   manifest_file.markers[m] <=> PlainlyIn(written, {RunLog, Terminal}, m)

\* a validated riscv64_smp run whose terminal held the shell marker with
\* another console's text inside it
C18_Witness ==
    /\ target = "riscv64_smp"
    /\ Validated
    /\ Ev(Terminal, {InterleavedShellReady, "initramfs#"}) \in written
    /\ ~manifest_file.markers["INITRAMFS_SHELL_READY"]
    /\ manifest_file.markers["initramfs#"]

\* main() has returned after it ran the simulator
Executed == Validated /\ ~dry_run /\ missing = <<>>

\* C20: the manifest of every run that executed the simulator holds a check
\* table with at least one entry and a validation verdict that is the
\* conjunction of the table's entries.
C20_ExecutedRunHasCheckTable ==
    Executed =>
        /\ HasChecks
        /\ manifest_file.checks # {}
        /\ "validation" \in manifest_file.keys
        /\ manifest_file.all_passed <=> AllTrue(manifest_file.checks)

\* the marker was observed in the console files of riscv32_mixed themselves
OnConsoles(w, m) == MarkerIn(Merged(w, Globbed(w, MixedTerminals)), m, TRUE)

\* C21: for riscv32_mixed the check terminal_markers_ok is true exactly when
\* every required workload marker was observed in the console files; a marker
\* that is only in the run log makes it false.
C21_TerminalCheckOnConsolesOnly ==
    (target = "riscv32_mixed" /\ Validated) =>
        (CheckIs("terminal_markers_ok", TRUE)
            <=> \A m \in MixedWorkloadMarkers : OnConsoles(written, m))

\* C22: whenever the latest pointers reference this run's timestamp
\* directory, the manifest of the run is already in it.
C22_PointersOnlyAfterManifest ==
    latest => manifest_file # NoManifest

MarkerGated == {"markers", "markers_multi"}

\* C24: in a marker-gated run, whether the stop is due to the markers or to
\* the deadline, the first signal sent is a terminate, in the same step for
\* both causes; a kill is sent only after that terminate and only when the
\* wait of the grace period ended with the child still running.
C24_TwoPhaseTermination ==
    [][strategy' \in MarkerGated =>
          /\ sent' # sent =>
                 \/ /\ pc = "terminate"
                    /\ stop_reason \in {"marker", "timeout"}
                    /\ sent = <<>>
                    /\ sent' = <<"terminate">>
                 \/ /\ pc = "kill"
                    /\ sent = <<"terminate">>
                    /\ sent' = <<"terminate", "kill">>
          /\ (pc = "terminate" /\ pc' # pc) => (sent' = <<"terminate">> /\ pc' = "wait_grace")
          /\ (pc' = "kill" /\ pc # "kill") => (pc = "wait_grace" /\ child = "running")]_vars

\* a run stopped at the deadline whose child outlived the grace period
C24_Witness ==
    /\ strategy \in MarkerGated
    /\ stop_reason = "timeout"
    /\ sent = <<"terminate", "kill">>
    /\ exit_cause = "sigkill"
    /\ pc = "validate"

\* C26: a returned run result never has timeout and terminated_on_marker both
\* true; with timeout its returncode is 124; with terminated_on_marker its
\* returncode is 0 and raw_returncode is the status of the child; with
\* neither, its returncode is the status of the child.
C26_ResultWellFormed ==
    Returned =>
        /\ ~(run_result.timeout /\ Tom(run_result))
        /\ run_result.timeout => run_result.returncode = TimeoutCode
        /\ Tom(run_result) =>
               /\ run_result.returncode = 0
               /\ run_result.raw_returncode = child_rc
        /\ (~run_result.timeout /\ ~Tom(run_result)) => run_result.returncode = child_rc

\* a run stopped on its markers whose child had to be killed
C26_Witness ==
    /\ Returned
    /\ Tom(run_result)
    /\ run_result.returncode = 0
    /\ run_result.raw_returncode = SIGKILL_RC
    /\ child_rc = SIGKILL_RC

\* C27: an iteration that finds all its markers stops the run for the markers
\* whatever the clock and the child are at, also at or past the deadline and
\* with the child already ended; a run stopped for the markers reports
\* returncode 0, terminated_on_marker and no timeout.
C27_MarkersBeforeExitAndDeadline ==
    /\ [][(pc = "poll_markers" /\ pc' # pc /\ MarkersSatisfied(written)) =>
              (stop_reason' = "marker" /\ pc' = "terminate")]_vars
    /\ [](Returned /\ stop_reason = "marker" =>
              /\ run_result.returncode = 0
              /\ ~run_result.timeout
              /\ Tom(run_result))

\* a run reported as stopped on its markers by an iteration that began when
\* the deadline had passed
C27_Witness ==
    /\ strategy \in MarkerGated
    /\ Returned
    /\ Tom(run_result)
    /\ ~run_result.timeout
    /\ now >= deadline

CheckedTargets == {"riscv64_smp", "riscv32_mixed", "riscv_hybrid"}

\* C29: for the targets with a check table, an invocation that is no dry run
\* and has nothing missing exits with 0 when every check is true and with 1
\* otherwise, and the manifest's validation.all_passed is true exactly when
\* the exit code is 0.
C29_ExitCodeIsVerdict ==
    (target \in CheckedTargets /\ pc \in {"done", "summarised"} /\ ~dry_run /\ missing = <<>>) =>
        /\ HasChecks
        /\ exit_code = (IF AllTrue(manifest_file.checks) THEN 0 ELSE 1)
        /\ manifest_file.all_passed <=> exit_code = 0

\* a riscv_hybrid run stopped at the deadline: exit code 1, not 124
C29_Witness ==
    /\ target = "riscv_hybrid"
    /\ pc = "done"
    /\ ~dry_run
    /\ missing = <<>>
    /\ run_result.timeout
    /\ CheckIs("returncode_ok", FALSE)
    /\ exit_code = 1
    /\ ~manifest_file.all_passed

(***************************************************************************)
(* Specification of a marker-gated run with a clock that also advances     *)
(* while the loop reads files, polls the child or oversleeps, and with the *)
(* supervisor's own steps always taken in the end (the loop is the only    *)
(* thread of the program).                                                 *)
(***************************************************************************)
MaxLatency == 1

\* a read of the marker files, proc.poll() or time.sleep(2) took a second more
Latency ==
    /\ strategy \in MarkerGated
    /\ pc \in {"poll_markers", "poll_process", "check_deadline", "sleep"}
    /\ now < deadline + MaxLatency
    /\ now' = now + 1
    /\ UNCHANGED <<args, flow, pc, strategy, stop_reason, proc, sent, deadline, run_result,
                   written, summary, hist, mvars>>

\* the steps of the two polling loops
GatedStep ==
    \/ PollMarkers \/ PollProcess \/ CheckDeadline \/ Sleep
    \/ Terminate \/ WaitReaped \/ WaitTerminated \/ GraceExpired \/ Kill

InitSupervise ==
    /\ Init
    /\ ~dry_run
    /\ absent = {}
    /\ StrategyFor \in MarkerGated

NextSupervise ==
    \/ Setup
    \/ Prepare
    \/ BuildDone
    \/ BuildFailed
    \/ MissingExit
    \/ Launch
    \/ \E e \in WriteEvents(target) : Write(e)
    \/ \E rc \in ExitCodes : ChildExit(rc)
    \/ Latency
    \/ PollMarkers
    \/ PollProcess
    \/ CheckDeadline
    \/ Sleep
    \/ Terminate
    \/ WaitReaped
    \/ WaitTerminated
    \/ GraceExpired
    \/ Kill
    \/ ValidateChecked
    \/ Summarise

SpecSupervise == InitSupervise /\ [][NextSupervise]_vars /\ WF_vars(GatedStep)

MainIdle ==
    /\ target = "riscv32_simple"
    /\ mode = "simple"
    /\ dry_run = TRUE
    /\ args_config = ""
    /\ allow_no_disk = FALSE
    /\ timeout_sec = 1
    /\ absent = {}
    /\ hinted = {}
    /\ MainFresh

InitMatch ==
    /\ m_text \in SeqsUpTo(TextChars, MaxTextLen)
    /\ m_marker \in SeqsUpTo(MarkerChars, MaxMarkerLen)
    /\ m_plain = FALSE
    /\ m_inter = FALSE
    /\ m_pc = "input"
    /\ m_case = NoCase
    /\ ResolveIdle
    /\ LinksIdle
    /\ ReadIdle
    /\ StatsIdle
    /\ IterationIdle
    /\ JobIdle
    /\ MainIdle

\* one call of marker_present with each value of allow_interleaved
Match ==
    /\ m_pc = "input"
    /\ m_pc' = "matched"
    /\ m_plain' = marker_present(m_text, m_marker, FALSE)
    /\ m_inter' = marker_present(m_text, m_marker, TRUE)
    /\ UNCHANGED <<m_text, m_marker, m_case, rvars, lvars, rdvars, stvars, qvars, jvars, mainvars>>

NextMatch == Match

SpecMatch == InitMatch /\ [][NextMatch]_vars

(***************************************************************************)
(* Specification of the matcher on console texts: haystacks put together   *)
(* from the two markers, line breaks and ANSI colour sequences.            *)
(***************************************************************************)

\* "Kernel panic" and its pieces
KernelPanic == <<75, 101, 114, 110, 101, 108, 32, 112, 97, 110, 105, 99>>
Kernel == <<75, 101, 114, 110, 101, 108>>
Pan == <<112, 97, 110>>
Ic == <<105, 99>>
\* "RISCV32 MIXED ROLE_SYNC mask=0x7 status=READY"
RoleSync ==
    <<82, 73, 83, 67, 86, 51, 50, 32, 77, 73, 88, 69, 68, 32, 82, 79, 76,
    69, 95, 83, 89, 78, 67, 32, 109, 97, 115, 107, 61, 48, 120, 55, 32,
    115, 116, 97, 116, 117, 115, 61, 82, 69, 65, 68, 89>>
\* ESC [ 3 1 m  and  ESC [ 0 m
Colour == <<27, 91, 51, 49, 109>>
Reset == <<27, 91, 48, 109>>
\* a line of another console: "[cpu1] boot"
NoiseLine == <<91, 99, 112, 117, 49, 93, 32, 98, 111, 111, 116>>
CRLF == <<CR, LF>>

\* a haystack around "Kernel panic": what precedes it, what separates the
\* two words, what breaks the word panic after "pan", what follows
PanicCases ==
    [kind : {"panic"},
     pre : {<<>>, Colour},
     sep : {<<SP>>, <<SP, SP>>, CRLF},
     brk : {<<>>, CRLF, <<LF>>, <<CR>>, <<NUL>>, <<SP>>, Reset},
     suf : {<<>>, Reset}]
PanicText(c) == c.pre \o Kernel \o c.sep \o Pan \o c.brk \o Ic \o c.suf

\* two console files holding the marker cut in three fragments, each on a
\* line of its own: the first file holds the first fragment, the second
\* file the last one, the middle one is in the file mid_in_first says; a
\* line of another console may sit between the fragments of one file
RoleCases ==
    {c \in [kind : {"role_sync"},
            cut1 : 1..(Len(RoleSync) - 2),
            cut2 : 2..(Len(RoleSync) - 1),
            mid_in_first : BOOLEAN,
            noise : BOOLEAN] : c.cut1 < c.cut2}
Line(s) == s \o <<LF>>
RoleFiles(c) ==
    LET p1 == SubSeq(RoleSync, 1, c.cut1)
        p2 == SubSeq(RoleSync, c.cut1 + 1, c.cut2)
        p3 == SubSeq(RoleSync, c.cut2 + 1, Len(RoleSync))
        between == IF c.noise THEN Line(NoiseLine) ELSE <<>>
    IN  IF c.mid_in_first
        THEN <<Line(p1) \o between \o Line(p2), Line(p3)>>
        ELSE <<Line(p1), Line(p2) \o between \o Line(p3)>>
\* the text read_markers_from_paths builds from the two files (lines 548-552)
RoleText(c) == Line(RoleFiles(c)[1]) \o Line(RoleFiles(c)[2])

InitScenario ==
    /\ m_case \in PanicCases \cup RoleCases
    /\ m_text = (IF m_case.kind = "panic" THEN PanicText(m_case) ELSE RoleText(m_case))
    /\ m_marker = (IF m_case.kind = "panic" THEN KernelPanic ELSE RoleSync)
    /\ m_plain = FALSE
    /\ m_inter = FALSE
    /\ m_pc = "input"
    /\ ResolveIdle
    /\ LinksIdle
    /\ ReadIdle
    /\ StatsIdle
    /\ IterationIdle
    /\ JobIdle
    /\ MainIdle

SpecScenario == InitScenario /\ [][NextMatch]_vars

\* C16 as stated: "Kernel panic" between ANSI colour sequences and broken by
\* CR LF between "pan" and "ic" is found with allow_interleaved = False.
C16_SplitPanicFoundNormalized ==
    (/\ m_pc = "matched" /\ m_case.kind = "panic"
     /\ m_case.pre = Colour /\ m_case.suf = Reset /\ m_case.brk = CRLF) => m_plain

\* C16 amended: "Kernel panic" between ANSI colour sequences is found with
\* allow_interleaved = False when the word panic is whole or broken by an
\* ANSI sequence only; broken by CR LF (or CR, LF, NUL, a space) it is not
\* found: the break becomes a separator and the normalized text reads
\* "Kernel pan ic".  With allow_interleaved = True it is found in every case.
C16_SplitPanicNotFoundNormalized ==
    (m_pc = "matched" /\ m_case.kind = "panic") =>
        /\ m_plain <=> m_case.brk \in {<<>>, Reset}
        /\ m_inter

\* the haystack of the scenario: coloured, broken by CR LF inside panic
C16_Witness ==
    /\ m_pc = "matched" /\ m_case.kind = "panic"
    /\ m_case.pre = Colour /\ m_case.suf = Reset /\ m_case.brk = CRLF
    /\ m_case.sep = <<SP>>
    /\ ~m_plain
    /\ m_inter

\* the cut after the c-th character of the marker falls on a space
CutAtSpace(c) == RoleSync[c] = SP \/ RoleSync[c + 1] = SP

\* C17 as stated: for the concatenation of two console files holding
\* fragments of the ROLE_SYNC marker on different lines, in order, the
\* marker is found with allow_interleaved = True and not with False.
C17_FragmentsFoundOnlyInterleaved ==
    (m_pc = "matched" /\ m_case.kind = "role_sync") => (m_inter /\ ~m_plain)

\* C17 amended: for that concatenation the marker is found with
\* allow_interleaved = True; with False it is not found, unless every cut
\* falls on a space of the marker and no other line sits between the
\* fragments (the line breaks then normalize to that space).
C17_FragmentsInterleavedOrAtSpaces ==
    (m_pc = "matched" /\ m_case.kind = "role_sync") =>
        /\ m_inter
        /\ m_plain <=> (~m_case.noise /\ CutAtSpace(m_case.cut1) /\ CutAtSpace(m_case.cut2))

\* fragments cut inside words with a line of another console between them
C17_Witness ==
    /\ m_pc = "matched" /\ m_case.kind = "role_sync"
    /\ m_case.noise
    /\ ~CutAtSpace(m_case.cut1)
    /\ ~CutAtSpace(m_case.cut2)
    /\ m_inter
    /\ ~m_plain

(***************************************************************************)
(* Specification of the artifact resolvers (run_gem5.py, lines 30-82 and   *)
(* 250-259).  A path is a string; "" is the hint that was not given.       *)
(***************************************************************************)

ResolverKinds == {"kernel", "bootloader", "initramfs", "disk_image"}
\* the kernel hint may be an Image; the other hints are plain paths
Hints == {"", "user/file", "boot/Image"}
CandidatePaths == {"", "build/a", "sources/b"}
ResolvePaths == (Hints \cup CandidatePaths) \ {""}

\* bound: length of the candidate list
MaxCands == 2

\* Path(p).exists(); Path("") is the current directory
PathExists(fs, p) == p = "" \/ p \in fs
\* Path(p).name == "Image"
IsImage(p) == p = "boot/Image"
\* str(Path(p))
PathStr(p) == IF p = "" THEN "." ELSE p

\* find_first_existing on a list of paths
RECURSIVE find_first_existing_in(_, _)
find_first_existing_in(fs, candidates) ==
    IF candidates = <<>> THEN ""
    ELSE LET c == Head(candidates)
         IN  IF c # "" /\ PathExists(fs, c) THEN c
             ELSE find_first_existing_in(fs, Tail(candidates))

\* auto_kernel_elf; candidates is the list it builds
auto_kernel_elf(fs, kernel_hint, candidates) ==
    IF PathExists(fs, kernel_hint) /\ ~IsImage(kernel_hint) THEN PathStr(kernel_hint)
    ELSE find_first_existing_in(fs, candidates)

\* the four resolutions of rv64_command and rv_hybrid_command
Resolve(kind, fs, hint, candidates, ram_root) ==
    CASE kind = "kernel" -> OrElse(auto_kernel_elf(fs, hint, candidates), hint)
      [] kind = "disk_image" ->
           IF hint # "" THEN hint
           ELSE IF ram_root THEN ""
           ELSE find_first_existing_in(fs, candidates)
      [] OTHER -> OrElse(hint, find_first_existing_in(fs, candidates))

InitResolve ==
    /\ r_kind \in ResolverKinds
    /\ r_hint \in (IF r_kind = "kernel" THEN Hints ELSE Hints \ {"boot/Image"})
    /\ r_cands \in SeqsUpTo(CandidatePaths, MaxCands)
    /\ r_fs \in SUBSET ResolvePaths
    /\ r_ram_root \in (IF r_kind = "disk_image" THEN BOOLEAN ELSE {FALSE})
    /\ r_out = ""
    /\ r_pc = "input"
    /\ MatchIdle
    /\ LinksIdle
    /\ ReadIdle
    /\ StatsIdle
    /\ IterationIdle
    /\ JobIdle
    /\ MainIdle

\* one resolution
ResolveArtifact ==
    /\ r_pc = "input"
    /\ r_out' = Resolve(r_kind, r_fs, r_hint, r_cands, r_ram_root)
    /\ r_pc' = "resolved"
    /\ UNCHANGED <<r_kind, r_hint, r_cands, r_fs, r_ram_root, matchvars, lvars, rdvars, stvars, qvars, jvars, mainvars>>

NextResolve == ResolveArtifact

SpecResolve == InitResolve /\ [][NextResolve]_vars

\* the first path of a list that exists, "" when none does
FirstThatExists(fs, paths) ==
    IF \E i \in DOMAIN paths : paths[i] \in fs
    THEN paths[CHOOSE i \in DOMAIN paths :
                   /\ paths[i] \in fs
                   /\ \A j \in 1..(i - 1) : paths[j] \notin fs]
    ELSE ""

\* C12: a resolver returns the hint if the hint exists, otherwise the first
\* candidate, in list order, that exists, otherwise the empty string.
C12_HintThenFirstCandidate ==
    r_pc = "resolved" =>
        r_out = IF r_hint \in r_fs THEN r_hint ELSE FirstThatExists(r_fs, r_cands)

(***************************************************************************)
(* Specification of the latest pointers (run_gem5.py, lines 207-240).      *)
(* Each file-system call of refresh_latest_symlink is one step; one or two *)
(* invocations with different timestamps share the results and log roots.  *)
(***************************************************************************)

\* the two invocations
Procs == {1, 2}

\* the pointers update_latest_symlinks refreshes, in its order (one under
\* the results root, one under the log root)
LinkSeq == <<"results/latest", "logs/latest">>
Links == {LinkSeq[i] : i \in DOMAIN LinkSeq}

\* the timestamp directory of an invocation; main() creates it first
Timestamp(p) == IF p = 1 THEN "ts1" ELSE "ts2"
ExistingDirs == {"old"} \cup {Timestamp(p) : p \in Procs}

Absent == [kind |-> "absent", to |-> ""]
RealDir == [kind |-> "dir", to |-> ""]
RegularFile == [kind |-> "file", to |-> ""]
SymlinkTo(t) == [kind |-> "symlink", to |-> t]
\* what a pointer name may be before the invocations
InitialEntries == {Absent, RealDir, RegularFile, SymlinkTo("old"), SymlinkTo("gone")}

\* Path.exists(): the entry is there and, for a symlink, so is its target
StatExists(e) ==
    e.kind \in {"dir", "file"} \/ (e.kind = "symlink" /\ e.to \in ExistingDirs)
\* Path.is_dir(): follows symlinks
StatIsDir(e) == e.kind = "dir" \/ (e.kind = "symlink" /\ e.to \in ExistingDirs)
\* Path.is_symlink()
IsSymlink(e) == e.kind = "symlink"

InitLinks ==
    /\ l_procs \in {{1}, Procs}
    /\ l_fs \in [Links -> InitialEntries]
    /\ l_init = l_fs
    /\ l_pc = [p \in Procs |-> IF p \in l_procs THEN "exists" ELSE "idle"]
    /\ l_idx = [p \in Procs |-> 1]
    /\ l_warned = [p \in Procs |-> {}]
    /\ MatchIdle
    /\ ResolveIdle
    /\ ReadIdle
    /\ StatsIdle
    /\ IterationIdle
    /\ JobIdle
    /\ MainIdle

LinkOf(p) == LinkSeq[l_idx[p]]
LinksFrame == UNCHANGED <<l_procs, l_init, matchvars, rvars, rdvars, stvars, qvars, jvars, mainvars>>

\* refresh_latest_symlink returns: the next pointer, or the end of
\* update_latest_symlinks
Returns(p) ==
    IF l_idx[p] < Len(LinkSeq)
    THEN /\ l_idx' = [l_idx EXCEPT ![p] = @ + 1]
         /\ l_pc' = [l_pc EXCEPT ![p] = "exists"]
    ELSE /\ l_pc' = [l_pc EXCEPT ![p] = "done"]
         /\ UNCHANGED l_idx

\* an OSError leaves main(): the invocation fails
Raises(p) ==
    /\ l_pc' = [l_pc EXCEPT ![p] = "failed"]
    /\ UNCHANGED l_idx

\* line 210: link_path.exists()
RefreshExists(p) ==
    /\ l_pc[p] = "exists"
    /\ l_pc' = [l_pc EXCEPT ![p] = IF StatExists(l_fs[LinkOf(p)]) THEN "is_dir"
                                   ELSE "is_symlink"]
    /\ UNCHANGED <<l_fs, l_idx, l_warned>>
    /\ LinksFrame

\* line 210: ... or link_path.is_symlink()
RefreshIsSymlink(p) ==
    /\ l_pc[p] = "is_symlink"
    /\ l_pc' = [l_pc EXCEPT ![p] = IF IsSymlink(l_fs[LinkOf(p)]) THEN "is_dir"
                                   ELSE "symlink_to"]
    /\ UNCHANGED <<l_fs, l_idx, l_warned>>
    /\ LinksFrame

\* variant of RefreshIsDir: whatever is_dir() reports is taken for a real
\* directory
RefreshIsDir_FollowsLinks(p) ==
    /\ l_pc[p] = "is_dir"
    /\ IF StatIsDir(l_fs[LinkOf(p)])
       THEN /\ l_warned' = [l_warned EXCEPT ![p] = @ \cup {LinkOf(p)}]
            /\ Returns(p)
       ELSE /\ l_pc' = [l_pc EXCEPT ![p] = "unlink"]
            /\ UNCHANGED <<l_idx, l_warned>>
    /\ UNCHANGED l_fs
    /\ LinksFrame

\* line 211: link_path.is_dir()
RefreshIsDir(p) ==
    /\ l_pc[p] = "is_dir"
    /\ l_pc' = [l_pc EXCEPT ![p] = IF StatIsDir(l_fs[LinkOf(p)]) THEN "not_symlink"
                                   ELSE "unlink"]
    /\ UNCHANGED <<l_fs, l_idx, l_warned>>
    /\ LinksFrame

\* lines 211-216: ... and not link_path.is_symlink(): warn and return
RefreshNotSymlink(p) ==
    /\ l_pc[p] = "not_symlink"
    /\ IF ~IsSymlink(l_fs[LinkOf(p)])
       THEN /\ l_warned' = [l_warned EXCEPT ![p] = @ \cup {LinkOf(p)}]
            /\ Returns(p)
       ELSE /\ l_pc' = [l_pc EXCEPT ![p] = "unlink"]
            /\ UNCHANGED <<l_idx, l_warned>>
    /\ UNCHANGED l_fs
    /\ LinksFrame

\* line 217: link_path.unlink(); FileNotFoundError when the name is gone,
\* an OSError on a directory
RefreshUnlink(p) ==
    /\ l_pc[p] = "unlink"
    /\ IF l_fs[LinkOf(p)].kind \in {"symlink", "file"}
       THEN /\ l_fs' = [l_fs EXCEPT ![LinkOf(p)] = Absent]
            /\ l_pc' = [l_pc EXCEPT ![p] = "symlink_to"]
            /\ UNCHANGED l_idx
       ELSE /\ Raises(p)
            /\ UNCHANGED l_fs
    /\ UNCHANGED l_warned
    /\ LinksFrame

\* line 218: link_path.symlink_to(target_name); FileExistsError when the
\* name is taken
RefreshSymlinkTo(p) ==
    /\ l_pc[p] = "symlink_to"
    /\ IF l_fs[LinkOf(p)] = Absent
       THEN /\ l_fs' = [l_fs EXCEPT ![LinkOf(p)] = SymlinkTo(Timestamp(p))]
            /\ Returns(p)
       ELSE /\ Raises(p)
            /\ UNCHANGED l_fs
    /\ UNCHANGED l_warned
    /\ LinksFrame

NextLinks ==
    \/ \E p \in l_procs : RefreshExists(p)
    \/ \E p \in l_procs : RefreshIsSymlink(p)
    \/ \E p \in l_procs : RefreshIsDir(p)
    \/ \E p \in l_procs : RefreshNotSymlink(p)
    \/ \E p \in l_procs : RefreshUnlink(p)
    \/ \E p \in l_procs : RefreshSymlinkTo(p)

SpecLinks == InitLinks /\ [][NextLinks]_vars

\* C13: an invocation running alone leaves a pointer name that is a real
\* directory as it was, warns about it and creates no symlink; a name that
\* is absent or a symlink (a dangling one too) is, after the refresh, a
\* symlink to the run's timestamp directory.
C13_RealDirectoryKept ==
    (l_procs = {1} /\ l_pc[1] = "done") =>
        \A l \in Links :
            /\ l_init[l] = RealDir => (l_fs[l] = RealDir /\ l \in l_warned[1])
            /\ (l_init[l] = Absent \/ IsSymlink(l_init[l])) =>
                   (l_fs[l] = SymlinkTo(Timestamp(1)) /\ l \notin l_warned[1])

\* a lone invocation that met a real directory and a dangling symlink
C13_Witness ==
    /\ l_procs = {1}
    /\ l_pc[1] = "done"
    /\ l_init["results/latest"] = RealDir
    /\ l_init["logs/latest"] = SymlinkTo("gone")
    /\ l_warned[1] = {"results/latest"}

\* C14: with two invocations running together neither fails, and at the end
\* every pointer that was not a real directory is a symlink to the timestamp
\* directory of one of the two.
C14_ConcurrentRefreshSafe ==
    l_procs = Procs =>
        /\ \A p \in Procs : l_pc[p] # "failed"
        /\ (\A p \in Procs : l_pc[p] = "done") =>
               \A l \in Links :
                   l_init[l] # RealDir =>
                       \E p \in Procs : l_fs[l] = SymlinkTo(Timestamp(p))

(***************************************************************************)
(* Specification of the log readers alone: read_markers_from_paths and the *)
(* reading step of the two polling loops, on log paths that may be absent, *)
(* a directory, unreadable, or hold bytes that are no UTF-8.  A file's     *)
(* content is a sequence of bytes; read_text(encoding="utf-8",             *)
(* errors="ignore") drops the bytes that cannot be decoded.                *)
(***************************************************************************)
MaxLogLen == 2

\* the letters a and b, and 0xFF, which no UTF-8 text holds
LogBytes == {97, 98, 255}

\* [run_log, terminal_log]
LogPaths == <<"run.log", "system.terminal">>

\* the markers looked up: "a" and "ab"
LogMarkers == {<<97>>, <<97, 98>>}

NoLog == [kind |-> "absent", bytes |-> <<>>]
LogDirectory == [kind |-> "directory", bytes |-> <<>>]
LogUnreadable == [kind |-> "unreadable", bytes |-> <<>>]
LogRegular(b) == [kind |-> "regular", bytes |-> b]

LogFiles ==
    {NoLog, LogDirectory, LogUnreadable}
        \cup {LogRegular(b) : b \in SeqsUpTo(LogBytes, MaxLogLen)}

\* Path.exists(): the name is there, whatever it is
path_exists(f) == f.kind # "absent"

\* Path.read_text() raises IsADirectoryError or PermissionError
ReadRaises(f) == f.kind \in {"directory", "unreadable"}

\* bytes.decode("utf-8", errors="ignore")
decode_ignore(bytes) == SelectSeq(bytes, LAMBDA b : b < 128)

read_text(f) == decode_ignore(f.bytes)

\* the loop  for path in paths: if path.exists(): txt += read_text + "\n"
RECURSIVE ReadAll(_, _, _)
ReadAll(fs, paths, i) ==
    IF i > Len(paths) THEN <<>>
    ELSE (IF path_exists(fs[paths[i]]) THEN read_text(fs[paths[i]]) \o <<LF>> ELSE <<>>)
             \o ReadAll(fs, paths, i + 1)

\* one of the read_text calls of that loop raises
AnyRaises(fs, paths) ==
    \E i \in 1..Len(paths) : path_exists(fs[paths[i]]) /\ ReadRaises(fs[paths[i]])

Raised == [kind |-> "raised"]

AllPresent(text) == \A m \in LogMarkers : marker_present(text, m, FALSE)

\* read_markers_from_paths([run_log, terminal_log], markers)
MarkersOf(fs) ==
    IF AnyRaises(fs, LogPaths) THEN Raised
    ELSE [kind |-> "markers",
          found |-> [m \in LogMarkers |->
                        marker_present(ReadAll(fs, LogPaths, 1), m, FALSE)]]

\* lines 610-612: the reading step of run_one_until_markers on terminal_log
PollOf(fs) ==
    LET f == fs[LogPaths[2]]
    IN  IF ~path_exists(f) THEN [kind |-> "poll", hit |-> FALSE]
        ELSE IF ReadRaises(f) THEN Raised
        ELSE [kind |-> "poll", hit |-> AllPresent(read_text(f))]

\* lines 666-672: the reading step of run_one_until_markers_multi
PollMultiOf(fs) ==
    IF AnyRaises(fs, LogPaths) THEN Raised
    ELSE LET merged == ReadAll(fs, LogPaths, 1)
         IN  [kind |-> "poll_multi", hit |-> merged # <<>> /\ AllPresent(merged)]

InitRead ==
    /\ rd_fs \in [{LogPaths[i] : i \in 1..Len(LogPaths)} -> LogFiles]
    /\ rd_out = NoRead
    /\ rd_pc = "input"
    /\ MatchIdle
    /\ ResolveIdle
    /\ LinksIdle
    /\ StatsIdle
    /\ IterationIdle
    /\ JobIdle
    /\ MainIdle

ReadFrame == UNCHANGED <<rd_fs, matchvars, rvars, lvars, stvars, qvars, jvars, mainvars>>

ReadMarkersFromPaths ==
    /\ rd_pc = "input"
    /\ rd_out' = MarkersOf(rd_fs)
    /\ rd_pc' = "done"
    /\ ReadFrame

PollRead ==
    /\ rd_pc = "input"
    /\ rd_out' = PollOf(rd_fs)
    /\ rd_pc' = "done"
    /\ ReadFrame

PollMultiRead ==
    /\ rd_pc = "input"
    /\ rd_out' = PollMultiOf(rd_fs)
    /\ rd_pc' = "done"
    /\ ReadFrame

NextRead ==
    \/ ReadMarkersFromPaths
    \/ PollRead
    \/ PollMultiRead

SpecRead == InitRead /\ [][NextRead]_vars

\* a regular file whose bytes all decode
WellFormed(f) == f.kind = "regular" /\ \A i \in DOMAIN f.bytes : f.bytes[i] < 128

\* the disk with every path that is not a well-formed regular file taken away
OnlyWellFormed(fs) == [p \in DOMAIN fs |-> IF WellFormed(fs[p]) THEN fs[p] ELSE NoLog]

\* C19: no reader raises, and each reports what it would report had every
\* absent, unreadable or malformed log been an empty text.
C19_MarkerReadingNeverRaises ==
    rd_pc = "done" =>
        /\ rd_out # Raised
        /\ rd_out.kind = "markers" => rd_out = MarkersOf(OnlyWellFormed(rd_fs))
        /\ rd_out.kind = "poll" => rd_out = PollOf(OnlyWellFormed(rd_fs))
        /\ rd_out.kind = "poll_multi" => rd_out = PollMultiOf(OnlyWellFormed(rd_fs))

(***************************************************************************)
(* Specification of read_stats_counter alone (run_gem5.py, lines 556-566). *)
(* The statistics file is absent or a sequence of lines, a line being the  *)
(* columns line.split() yields.                                            *)
(***************************************************************************)
MaxStatLines == 2

\* the key asked for at lines 1058 and 1131
SimInsts == "simInsts"

StatKeys == {SimInsts, "simTicks", "system.simInsts"}
StatValues == {"42", "7.9", "-3", "abc", "nan", "inf"}

StatLines ==
    {<<>>} \cup {<<k>> : k \in StatKeys}
           \cup {<<k, v>> : k \in StatKeys, v \in StatValues}
           \cup {<<SimInsts, v, "#">> : v \in StatValues}

NoStats == [exists |-> FALSE, lines |-> <<>>]
StatsFile(ls) == [exists |-> TRUE, lines |-> ls]

\* Python's float(s) on the column
float(s) ==
    CASE s = "42" -> [kind |-> "finite", trunc |-> 42]
      [] s = "7.9" -> [kind |-> "finite", trunc |-> 7]
      [] s = "-3" -> [kind |-> "finite", trunc |-> 0 - 3]
      [] s = "nan" -> [kind |-> "nan"]
      [] s = "inf" -> [kind |-> "inf"]
      [] OTHER -> [kind |-> "ValueError"]

IntResult(v) == [kind |-> "returned", value |-> v]
RaisedError(e) == [kind |-> "raised", error |-> e]

\* int(float(s)): truncation, ValueError for a word or nan, OverflowError
\* for an infinity
int_float(s) ==
    LET f == float(s)
    IN  CASE f.kind = "finite" -> IntResult(f.trunc)
          [] f.kind = "inf" -> RaisedError("OverflowError")
          [] OTHER -> RaisedError("ValueError")

\* lines 562-565: the conversion with only ValueError caught
ConvertCaught(s) ==
    LET r == int_float(s)
    IN  IF r = RaisedError("ValueError") THEN IntResult(0 - 1) ELSE r

\* lines 559-566: the loop over the lines
RECURSIVE ScanStats(_, _, _)
ScanStats(lines, i, key) ==
    IF i > Len(lines) THEN IntResult(0 - 1)
    ELSE LET columns == lines[i]
         IN  IF Len(columns) >= 2 /\ columns[1] = key THEN ConvertCaught(columns[2])
             ELSE ScanStats(lines, i + 1, key)

read_stats_counter(f, key) ==
    IF ~f.exists THEN IntResult(0 - 1) ELSE ScanStats(f.lines, 1, key)

InitStats ==
    /\ st_file \in {NoStats} \cup {StatsFile(ls) : ls \in SeqsUpTo(StatLines, MaxStatLines)}
    /\ st_out = NoRead
    /\ st_pc = "input"
    /\ MatchIdle
    /\ ResolveIdle
    /\ LinksIdle
    /\ ReadIdle
    /\ IterationIdle
    /\ JobIdle
    /\ MainIdle

ReadStatsCounter ==
    /\ st_pc = "input"
    /\ st_out' = read_stats_counter(st_file, SimInsts)
    /\ st_pc' = "done"
    /\ UNCHANGED <<st_file, matchvars, rvars, lvars, rdvars, qvars, jvars, mainvars>>

NextStats == ReadStatsCounter

SpecStats == InitStats /\ [][NextStats]_vars

\* the lines of the file that have the key in the first of two or more columns
Matching(f) ==
    {i \in 1..Len(f.lines) : Len(f.lines[i]) >= 2 /\ f.lines[i][1] = SimInsts}

FirstMatching(f) == CHOOSE i \in Matching(f) : \A j \in Matching(f) : i <= j

\* C23: read_stats_counter returns the integer value of the first matching
\* line, and -1 when the file is absent, when no line matches, or when the
\* value of the first matching line is no number with an integer value.
C23_FirstMatchOrSentinel ==
    st_pc = "done" =>
        st_out =
            IF ~st_file.exists \/ Matching(st_file) = {} THEN IntResult(0 - 1)
            ELSE LET f == float(st_file.lines[FirstMatching(st_file)][2])
                 IN  IF f.kind = "finite" THEN IntResult(f.trunc) ELSE IntResult(0 - 1)

(***************************************************************************)
(* Specification of one iteration of each polling loop on the same marker  *)
(* log, the same markers, the same child and the same clock:               *)
(* run_one_until_markers(p) against run_one_until_markers_multi([p]).      *)
(***************************************************************************)
MaxPollTextLen == 3
MaxPollMarkerLen == 2

PollTextChars == {ESC, LBRACKET, 97, LF}
PollMarkerChars == {97, LBRACKET, LF}

NoMarkerLog == [exists |-> FALSE, text |-> <<>>]
MarkerLog(t) == [exists |-> TRUE, text |-> t]

\* markers with at least one alphanumeric character
PollMarkerSet ==
    {m \in SeqsUpTo(PollMarkerChars, MaxPollMarkerLen) : \E i \in DOMAIN m : IsAlnum(m[i])}

\* all(marker_present(text, marker) for marker in success_markers)
AllMarkers(text, markers) ==
    \A i \in DOMAIN markers : marker_present(text, markers[i], FALSE)

\* lines 610-612: the marker test of run_one_until_markers
SingleTest(f, markers) == f.exists /\ AllMarkers(f.text, markers)

\* lines 666-671: merged for the one path
MergedOne(f) == IF f.exists THEN f.text \o <<LF>> ELSE <<>>

\* variant of MultiTest: one marker is enough
MultiTest_AnyMarker(f, markers) ==
    /\ MergedOne(f) # <<>>
    /\ \E i \in DOMAIN markers : marker_present(MergedOne(f), markers[i], FALSE)

\* line 672: the marker test of run_one_until_markers_multi
MultiTest(f, markers) == MergedOne(f) # <<>> /\ AllMarkers(MergedOne(f), markers)

\* the rest of the loop body, the same text in both functions (lines 612-643
\* and 672-703)
Branch(hit) ==
    IF hit THEN "stop_on_markers"
    ELSE IF q_child = "exited" THEN "return_exit_code"
    ELSE IF q_late THEN "stop_at_deadline"
    ELSE "sleep"

InitIteration ==
    /\ q_file \in {NoMarkerLog}
                    \cup {MarkerLog(t) : t \in SeqsUpTo(PollTextChars, MaxPollTextLen)}
    /\ q_markers \in {<<m>> : m \in PollMarkerSet} \cup {<<m, <<97>>>> : m \in PollMarkerSet}
    /\ q_child \in {"running", "exited"}
    /\ q_late \in BOOLEAN
    /\ q_single = "input"
    /\ q_multi = "input"
    /\ MatchIdle
    /\ ResolveIdle
    /\ LinksIdle
    /\ ReadIdle
    /\ StatsIdle
    /\ JobIdle
    /\ MainIdle

IterationFrame ==
    UNCHANGED <<q_file, q_markers, q_child, q_late, matchvars, rvars, lvars, rdvars,
                stvars, jvars, mainvars>>

SingleIteration ==
    /\ q_single = "input"
    /\ q_single' = Branch(SingleTest(q_file, q_markers))
    /\ UNCHANGED q_multi
    /\ IterationFrame

MultiIteration ==
    /\ q_multi = "input"
    /\ q_multi' = Branch(MultiTest(q_file, q_markers))
    /\ UNCHANGED q_single
    /\ IterationFrame

NextIteration ==
    \/ SingleIteration
    \/ MultiIteration

SpecIteration == InitIteration /\ [][NextIteration]_vars

BothDone == q_single \notin {"idle", "input"} /\ q_multi \notin {"idle", "input"}

EndsWithLF(m) == m # <<>> /\ m[Len(m)] = LF

\* C28 as stated: on one path both loops take the same branch at a poll, for
\* every non-empty list of markers with an alphanumeric character each.
C28_SameBranch ==
    BothDone => q_single = q_multi

\* C28: on one path both loops take the same branch at a poll, for every
\* non-empty list of markers with an alphanumeric character each and none
\* ending with a line feed.
C28_SameBranchNoTrailingLF ==
    (BothDone /\ \A i \in DOMAIN q_markers : ~EndsWithLF(q_markers[i])) =>
        q_single = q_multi

\* both loops stop on a marker that is in the log behind a colour sequence
C28_Witness ==
    /\ BothDone
    /\ q_file = MarkerLog(<<ESC, LBRACKET, 97>>)
    /\ q_markers = <<<<97>>>>
    /\ q_single = "stop_on_markers"
    /\ q_multi = "stop_on_markers"

(***************************************************************************)
(* Specification of a dashboard job (web_dashboard.py): the job record as  *)
(* run_job writes it field by field, other threads reading it in between.  *)
(***************************************************************************)
MaxOutput == 2

\* lines 205-212: token, progress, stage
mapping ==
    <<[token |-> "[INFO] target=", progress |-> 5, stage |-> "Preparing workload"],
      [token |-> "Building mixed boot trampoline", progress |-> 20,
       stage |-> "Preparing boot image"],
      [token |-> "[INFO] Executing:", progress |-> 45, stage |-> "Running simulation"],
      [token |-> "[OK] Manifest: ", progress |-> 75, stage |-> "Collecting run artifacts"],
      [token |-> "[OK] Benchmark scaffold manifest", progress |-> 90,
       stage |-> "Building benchmark summary"],
      [token |-> "[OK] Benchmark scaffold summary", progress |-> 95,
       stage |-> "Finalizing result"]>>

\* an output line is the set of the tokens it contains
OutputLines ==
    {{}} \cup {{mapping[i].token} : i \in DOMAIN mapping}
         \cup {{"[INFO] Executing:", "[OK] Manifest: "}}

Min(a, b) == IF a <= b THEN a ELSE b
Max(a, b) == IF a >= b THEN a ELSE b

\* variant of update_progress: the progress of the token is always assigned
RECURSIVE update_progress_Unguarded(_, _, _)
update_progress_Unguarded(job, line, i) ==
    IF i > Len(mapping) THEN job
    ELSE IF mapping[i].token \in line
    THEN update_progress_Unguarded([progress |-> mapping[i].progress,
                                    stage |-> mapping[i].stage], line, i + 1)
    ELSE update_progress_Unguarded(job, line, i + 1)

\* lines 213-217: the loop over mapping from entry i on; job is the pair of
\* fields the function writes
RECURSIVE update_progress(_, _, _)
update_progress(job, line, i) ==
    IF i > Len(mapping) THEN job
    ELSE IF mapping[i].token \in line
    THEN update_progress([progress |-> IF mapping[i].progress > job.progress
                                       THEN mapping[i].progress ELSE job.progress,
                          stage |-> mapping[i].stage], line, i + 1)
    ELSE update_progress(job, line, i + 1)

\* SimulationJob as constructed at lines 485-493
InitJob ==
    /\ j_status = "queued"
    /\ j_stage = "queued"
    /\ j_progress = 0
    /\ j_returncode = -2
    /\ j_output = <<>>
    /\ j_pc = "lookup"
    /\ MatchIdle
    /\ ResolveIdle
    /\ LinksIdle
    /\ ReadIdle
    /\ StatsIdle
    /\ IterationIdle
    /\ MainIdle

JobFrame == UNCHANGED <<matchvars, rvars, lvars, rdvars, stvars, qvars, mainvars>>

\* lines 238-242: the options of the job are looked up; an unknown target or
\* workload raises KeyError
Lookup ==
    /\ j_pc = "lookup"
    /\ j_pc' \in {"start", "except"}
    /\ UNCHANGED <<j_status, j_stage, j_progress, j_returncode, j_output>>
    /\ JobFrame

\* lines 244-247
Start ==
    /\ j_pc = "start"
    /\ j_status' = "running"
    /\ j_stage' = "Launching run_bench.sh"
    /\ j_progress' = 1
    /\ j_pc' = "popen"
    /\ UNCHANGED <<j_returncode, j_output>>
    /\ JobFrame

\* lines 254-262: Popen starts run_bench.sh or raises OSError
Spawn ==
    /\ j_pc = "popen"
    /\ j_pc' \in {"read", "except"}
    /\ UNCHANGED <<j_status, j_stage, j_progress, j_returncode, j_output>>
    /\ JobFrame

\* lines 266-269: one line of the output
ReadLine(line) ==
    /\ j_pc = "read"
    /\ Len(j_output) < MaxOutput
    /\ j_output' = Append(j_output, line)
    /\ LET job == update_progress([progress |-> j_progress, stage |-> j_stage], line, 1)
       IN  /\ j_progress' = job.progress
           /\ j_stage' = job.stage
    /\ UNCHANGED <<j_status, j_returncode, j_pc>>
    /\ JobFrame

\* line 266: the pipe yields bytes that are no text and the iteration raises
ReadFails ==
    /\ j_pc = "read"
    /\ j_pc' = "except"
    /\ UNCHANGED <<j_status, j_stage, j_progress, j_returncode, j_output>>
    /\ JobFrame

\* lines 271-272: end of the output, the process is waited for
Wait(rc) ==
    /\ j_pc = "read"
    /\ j_returncode' = rc
    /\ j_pc' = IF rc = 0 THEN "completed_status" ELSE "failed_status"
    /\ UNCHANGED <<j_status, j_stage, j_progress, j_output>>
    /\ JobFrame

\* lines 275-276
CompletedStatus ==
    /\ j_pc = "completed_status"
    /\ j_status' = "completed"
    /\ j_stage' = "Completed"
    /\ j_pc' = "completed_progress"
    /\ UNCHANGED <<j_progress, j_returncode, j_output>>
    /\ JobFrame

\* line 277
CompletedProgress ==
    /\ j_pc = "completed_progress"
    /\ j_progress' = 100
    /\ j_pc' = "returned"
    /\ UNCHANGED <<j_status, j_stage, j_returncode, j_output>>
    /\ JobFrame

\* lines 279-280
FailedStatus ==
    /\ j_pc = "failed_status"
    /\ j_status' = "failed"
    /\ j_stage' = "Failed"
    /\ j_pc' = "failed_progress"
    /\ UNCHANGED <<j_progress, j_returncode, j_output>>
    /\ JobFrame

\* line 281
FailedProgress ==
    /\ j_pc = "failed_progress"
    /\ j_progress' = Min(99, Max(j_progress, 50))
    /\ j_pc' = "returned"
    /\ UNCHANGED <<j_status, j_stage, j_returncode, j_output>>
    /\ JobFrame

\* lines 285-291: the handler of any exception
Except ==
    /\ j_pc = "except"
    /\ j_status' = "failed"
    /\ j_stage' = "Failed"
    /\ j_returncode' = -1
    /\ j_progress' = Min(99, Max(j_progress, 1))
    /\ j_pc' = "returned"
    /\ UNCHANGED j_output
    /\ JobFrame

NextJob ==
    \/ Lookup
    \/ Start
    \/ Spawn
    \/ \E line \in OutputLines : ReadLine(line)
    \/ ReadFails
    \/ \E rc \in {0, 1} : Wait(rc)
    \/ CompletedStatus
    \/ CompletedProgress
    \/ FailedStatus
    \/ FailedProgress
    \/ Except

SpecJob == InitJob /\ [][NextJob]_vars

\* C30: the progress of a job never decreases, whatever lines the output
\* holds and whether run_job ends by completion, by failure or by an
\* exception, and it is 100 only when the status is completed.
C30_ProgressMonotone ==
    /\ [][j_progress' >= j_progress]_vars
    /\ [](j_progress = 100 => j_status = "completed")

\* a failed job whose output went back from the manifest line to an earlier
\* token: the progress stayed at 75
C30_Witness ==
    /\ j_pc = "returned"
    /\ j_status = "failed"
    /\ j_returncode = 1
    /\ j_output = <<{"[OK] Manifest: "}, {"[INFO] target="}>>
    /\ j_stage = "Failed"
    /\ j_progress = 75

====
